---- MODULE Spec2Model ----
(***************************************************************************)
(* Batch prediction pipeline of the BI platform: the orchestrator (main),  *)
(* the relational store it reads and writes, and the statistical models    *)
(* it runs (forecastSales, scoreCustomerRisk, forecastCashFlow,            *)
(* optimizeInventory).                                                     *)
(*                                                                         *)
(* Numbers.  JavaScript doubles are modelled in decimal fixed point on     *)
(* TLC's 32-bit integers: every operator below states its scale.  A value  *)
(* that can be NaN or infinite at run time is a record [k, v] with         *)
(* k \in {"num", "NaN", "Infinity"}.                                       *)
(* Dates.  An ISO date 'YYYY-MM-DD' is [ym |-> months since year 0,        *)
(* dd |-> day of month]; substring(0, 7) of it is the field ym.            *)
(***************************************************************************)
EXTENDS Integers, Sequences, FiniteSets, TLC

VARIABLES
    \* the store (Supabase tables)
    dbTransactions, dbCustomers, dbProducts, dbInventory,
    prediction_runs, transaction_predictions, customer_risk_scores,
    cash_flow_forecasts, inventory_forecasts,
    \* locals of main()
    pc, page, allTransactions, transactions, customers, products, inventory,
    runId, salesPredictions, riskScores, cashFlowForecasts, inventoryForecasts,
    \* environment of the process
    now, tz,
    \* what the current execution has done so far: the message of the Error
    \* it threw, the tables whose write returned an error, the models it ran
    \* and the number of prediction rows the store held when it started
    thrown, writeErrors, modelsRun, executions, rowsBefore,
    \* the rows an earlier call of a model returned
    previousRows,
    \* the web application: state of the useAuth hook of App, the session of
    \* the Supabase client, the browser location, and the asynchronous calls
    \* in flight (getSession, auth-change events not yet delivered,
    \* fetchUserRole, signOut, the signIn of the Login page)
    user, loading, error, session, location,
    sessionCheck, events, roleFetches, signOutCall, signInCall,
    \* the useAuth hook of the Login page (its user and loading state) and
    \* what its last signIn call resolved with
    loginUser, loginLoading, signInResult,
    \* the dashboard pages: the data of the 'prediction-run' query and the
    \* data the ML query that ran last delivered
    predictionRun, mlData

storeVars == <<dbTransactions, dbCustomers, dbProducts, dbInventory>>
tableVars == <<transaction_predictions, customer_risk_scores,
               cash_flow_forecasts, inventory_forecasts>>
localVars == <<page, allTransactions, transactions, customers, products,
               inventory, runId, salesPredictions, riskScores,
               cashFlowForecasts, inventoryForecasts>>
envVars == <<now, tz>>
pipelineVars == <<storeVars, prediction_runs, tableVars, pc, localVars, envVars,
                  thrown, writeErrors, modelsRun, executions, rowsBefore,
                  previousRows>>
loginVars == <<loginUser, loginLoading, signInResult>>
authVars == <<user, loading, error, session, location,
              sessionCheck, events, roleFetches, signOutCall, signInCall,
              loginVars>>
dashVars == <<predictionRun, mlData>>
vars == <<pipelineVars, authVars, dashVars>>

NULL == "null"

\* bounds of the model
MaxStoreTxns == 3
MaxRuns == 2
MaxSalesTxns == 4
MaxRiskTxns == 3
MaxCashTxns == 4
MaxInvTxns == 3
MaxEvents == 2
MaxRoleFetches == 2

-----------------------------------------------------------------------------
(* Sequences and integer helpers *)

Range(s) == {s[i] : i \in 1..Len(s)}

RECURSIVE SumSeq(_)
SumSeq(s) == IF s = <<>> THEN 0 ELSE s[1] + SumSeq(Tail(s))

RECURSIVE Flatten(_)
Flatten(ss) == IF ss = <<>> THEN <<>> ELSE ss[1] \o Flatten(Tail(ss))

\* keys of a JavaScript object built by insertion: first-appearance order
RECURSIVE DistinctInOrder(_)
DistinctInOrder(s) ==
    IF s = <<>> THEN <<>>
    ELSE LET r == DistinctInOrder(SubSeq(s, 1, Len(s) - 1))
             x == s[Len(s)]
         IN  IF x \in Range(r) THEN r ELSE Append(r, x)

MinOf(S) == CHOOSE x \in S : \A y \in S : x <= y
MaxOf(S) == CHOOSE x \in S : \A y \in S : x >= y

\* Array.prototype.sort() of distinct integers (month keys), ascending
RECURSIVE SortAsc(_)
SortAsc(S) == IF S = {} THEN <<>>
              ELSE LET m == MinOf(S) IN <<m>> \o SortAsc(S \ {m})

RECURSIVE SortDesc(_)
SortDesc(S) == IF S = {} THEN <<>>
               ELSE LET m == MaxOf(S) IN <<m>> \o SortDesc(S \ {m})

IndexOf(s, x) == CHOOSE i \in 1..Len(s) : s[i] = x

Abs(x) == IF x < 0 THEN -x ELSE x
Max2(a, b) == IF a >= b THEN a ELSE b
Min2(a, b) == IF a <= b THEN a ELSE b

RECURSIVE Pow10(_)
Pow10(k) == IF k = 0 THEN 1 ELSE 10 * Pow10(k - 1)

\* the first k decimal digits of r / b for 0 <= r < b, as an integer
RECURSIVE FracDigits(_, _, _)
FracDigits(r, b, k) ==
    IF k = 0 THEN 0
    ELSE ((r * 10) \div b) * Pow10(k - 1) + FracDigits((r * 10) % b, b, k - 1)

\* floor(a * 10^k / b) for b > 0, computed digit by digit (no overflow)
ScaledDiv(a, b, k) == (a \div b) * Pow10(k) + FracDigits(a % b, b, k)

\* Math.round(a / b * 10^k): round half up, result in units of 10^-k
RoundScaled(a, b, k) == (ScaledDiv(a, b, k + 1) + 5) \div 10

\* Math.round(x / 10^d) for x in fixed point: drop d digits, half up
RoundDrop(x, d) == (x + 5 * Pow10(d - 1)) \div Pow10(d)

\* parseFloat(v) || 0 on a numeric column, which the store returns as a number
ParseFloatOr0(v) == v

\* a nullable date column is <<>> (null) or <<day number>>
NoDate == <<>>
HasDate(v) == v # NoDate

Num(v) == [k |-> "num", v |-> v]
NaN == [k |-> "NaN", v |-> 0]
Infinity == [k |-> "Infinity", v |-> 0]
IsNum(x) == x.k = "num"

Month(t) == t.transaction_date.ym

\* new Date(year, mon - 1 + i, 1).toISOString().substring(0, 10) for the
\* month ym + i: the Date is local midnight of the 1st; toISOString prints
\* it in UTC, which is still the 1st when the local zone is UTC or west of
\* it (tz = 0) and the last day of the month before when it is east (tz = 1).
FutureMonthISO(ym, i, zone) ==
    IF zone = 0 THEN [ym |-> ym + i, dd |-> 1]
    ELSE [ym |-> ym + i - 1, dd |-> 31]

-----------------------------------------------------------------------------
(* Sales Forecaster *)

\* productMonthly[pid][month] = {quantity, revenue, count}
ProductTxns(txns, pid) ==
    LET Test(t) == t.product_id = pid IN SelectSeq(txns, Test)

MonthlyOf(txns, pid, m) ==
    LET Test(t) == t.product_id = pid /\ Month(t) = m
        rows == SelectSeq(txns, Test)
    IN  [quantity |-> SumSeq([i \in 1..Len(rows) |-> ParseFloatOr0(rows[i].quantity_liters)]),
         revenue  |-> SumSeq([i \in 1..Len(rows) |-> ParseFloatOr0(rows[i].total_amount)]),
         count    |-> Len(rows)]

\* Object.keys(productMonthly[pid]) in insertion order
ProductMonths(txns, pid) ==
    LET rows == ProductTxns(txns, pid)
    IN  DistinctInOrder([i \in 1..Len(rows) |-> Month(rows[i])])

\* [...new Set(transactions.map(month))].sort()
AllMonths(txns) == SortAsc({Month(txns[i]) : i \in 1..Len(txns)})

\* dataPoints: [[monthIndex[month], quantity], ...]
DataPoints(txns, pid) ==
    LET ms == ProductMonths(txns, pid)
        all == AllMonths(txns)
    IN  [i \in 1..Len(ms) |->
            [x |-> IndexOf(all, ms[i]) - 1,
             y |-> MonthlyOf(txns, pid, ms[i]).quantity]]

\* ss.linearRegression: m = mNum / D, b = bNum / (n * D), kept as exact
\* fractions over the common denominator den = n * D
linearRegression(pts) ==
    LET n   == Len(pts)
        sx  == SumSeq([i \in 1..n |-> pts[i].x])
        sy  == SumSeq([i \in 1..n |-> pts[i].y])
        sxx == SumSeq([i \in 1..n |-> pts[i].x * pts[i].x])
        sxy == SumSeq([i \in 1..n |-> pts[i].x * pts[i].y])
        D   == n * sxx - sx * sx
        mNum == n * sxy - sx * sy
    IN  [mNum |-> mNum, D |-> D, n |-> n, sy |-> sy,
         bNum |-> sy * D - mNum * sx, den |-> n * D]

regressionLine_Shifted(reg, x) == reg.mNum * reg.n * (x - 1) + reg.bNum

\* ss.linearRegressionLine(regression)(x), as a numerator over reg.den
regressionLine(reg, x) == reg.mNum * reg.n * x + reg.bNum

\* ss.rSquared(dataPoints, regressionLine): 1 - err / sumOfSquares, with the
\* residuals in tenths of a litre; NaN when every quantity is the same (0 / 0).
\* The result is Math.round(Math.max(0, r2) * 100) / 100 in hundredths.
ConfidenceFromRSquared(pts, reg) ==
    LET n    == Len(pts)
        avg  == RoundScaled(reg.sy, n, 1)
        sumOfSquares == SumSeq([i \in 1..n |->
                            (avg - 10 * pts[i].y) * (avg - 10 * pts[i].y)])
        fit(i) == RoundScaled(regressionLine(reg, pts[i].x), reg.den, 1)
        err  == SumSeq([i \in 1..n |->
                            (10 * pts[i].y - fit(i)) * (10 * pts[i].y - fit(i))])
    IN  IF sumOfSquares = 0 THEN NaN
        ELSE IF err >= sumOfSquares THEN Num(0)
        ELSE Num(RoundScaled(sumOfSquares - err, sumOfSquares, 2))

\* avgUnitPrice: mean over the 3 most recent months of the product of
\* (d.count > 0 ? d.revenue / d.quantity : 0), in hundredths.  count is never
\* 0 for a month that exists, so a month of quantity 0 divides by zero:
\* 0 / 0 is NaN and revenue / 0 is Infinity.
UnitPriceOf(d) ==
    IF d.count > 0
    THEN IF d.quantity = 0
         THEN (IF d.revenue = 0 THEN NaN ELSE Infinity)
         ELSE Num(ScaledDiv(d.revenue, d.quantity, 4))
    ELSE Num(0)

AvgUnitPrice(txns, pid) ==
    LET recent == SubSeq(SortDesc(Range(ProductMonths(txns, pid))), 1,
                         Min2(3, Len(ProductMonths(txns, pid))))
        prices == [i \in 1..Len(recent) |-> UnitPriceOf(MonthlyOf(txns, pid, recent[i]))]
    IN  IF \E i \in 1..Len(prices) : prices[i].k = "NaN" THEN NaN
        ELSE IF \E i \in 1..Len(prices) : prices[i].k = "Infinity" THEN Infinity
        ELSE Num(RoundDrop(SumSeq([i \in 1..Len(prices) |-> prices[i].v]) \div Len(prices), 2))

\* predictedQty * avgUnitPrice, rounded to hundredths (qty and price in
\* hundredths); 0 * Infinity is NaN
PredictedRevenue(qty, price) ==
    IF price.k = "NaN" THEN NaN
    ELSE IF price.k = "Infinity" THEN (IF qty = 0 THEN NaN ELSE Infinity)
    ELSE Num(RoundDrop(qty * price.v, 2))

SalesRow(txns, pid, reg, conf, price, i, zone) ==
    LET all == AllMonths(txns)
        lastIndex == Len(all) - 1
        futureIndex == lastIndex + i
        fitted == regressionLine(reg, futureIndex)
        predictedQty == RoundScaled(Max2(0, fitted), reg.den, 2)
    IN  [product_id |-> pid,
         prediction_month |-> FutureMonthISO(all[Len(all)], i, zone),
         predicted_quantity |-> predictedQty,
         predicted_revenue |-> PredictedRevenue(predictedQty, price),
         confidence_score |-> conf,
         model_used |-> "linear_regression",
         trend_direction |-> IF reg.mNum > 0 THEN "up"
                             ELSE IF reg.mNum < 0 THEN "down" ELSE "stable",
         growth_rate |-> IF reg.sy > 0
                         THEN RoundScaled(reg.mNum * reg.n, reg.D * reg.sy, 4)
                         ELSE 0]

MinSalesPointsTwo == 3 - 1

\* the minimum number of data points of a product that is forecast
MinSalesPoints == 3

SalesRowsOf(txns, prods, pid, zone) ==
    LET pts == DataPoints(txns, pid)
        reg == linearRegression(pts)
    IN  IF ~(\E j \in 1..Len(prods) : prods[j].id = pid) THEN <<>>
        ELSE IF Len(pts) < MinSalesPoints THEN <<>>
        ELSE [i \in 1..3 |->
                SalesRow(txns, pid, reg, ConfidenceFromRSquared(pts, reg),
                         AvgUnitPrice(txns, pid), i, zone)]

forecastSales(txns, prods, zone) ==
    LET pids == DistinctInOrder([i \in 1..Len(txns) |-> txns[i].product_id])
    IN  Flatten([k \in 1..Len(pids) |-> SalesRowsOf(txns, prods, pids[k], zone)])

-----------------------------------------------------------------------------
(* Risk Scorer.  Ratios, normalized features and probabilities are in      *)
(* millionths (scale 10^6); delays are in thousandths of a day.            *)

ONE == 1000 * 1000

\* a * b / 10^6 for 0 <= a, b < 4 * 10^7, by 3-digit limbs (no overflow)
MulS6(a, b) ==
    LET ah == a \div 1000  al == a % 1000
        bh == b \div 1000  bl == b % 1000
    IN  ah * bh + (ah * bl + al * bh + (al * bl) \div 1000) \div 1000

\* Math.exp(x) for 0 <= x <= 3 (x and the result in millionths): the Taylor
\* series, summed until the terms vanish at this precision
RECURSIVE ExpTerms(_, _, _)
ExpTerms(x, term, k) ==
    IF term = 0 THEN 0
    ELSE term + ExpTerms(x, MulS6(term, x) \div k, k + 1)

Exp6(x) == ExpTerms(x, ONE, 1)

\* sigmoid(x) = 1 / (1 + Math.exp(-x)), in millionths, for -3 <= x <= 3
sigmoid(x) ==
    LET E == Exp6(Abs(x))
    IN  IF x >= 0 THEN ScaledDiv(E, E + ONE, 6) ELSE ScaledDiv(ONE, E + ONE, 6)

featureNames == <<"overdue_ratio", "outstanding_ratio", "avg_payment_delay",
                  "credit_utilization", "recency_score", "partial_payment_ratio">>

WEIGHTS_Heavier ==
    [overdue_ratio |-> 35, outstanding_ratio |-> 20,
     avg_payment_delay |-> 20, credit_utilization |-> 15,
     recency_score |-> 10, partial_payment_ratio |-> 10]

\* WEIGHTS, in hundredths
WEIGHTS == [overdue_ratio |-> 25, outstanding_ratio |-> 20,
            avg_payment_delay |-> 20, credit_utilization |-> 15,
            recency_score |-> 10, partial_payment_ratio |-> 10]

\* new Date(iso) as a day number; day differences are taken on a calendar of
\* 30-day months (no claim depends on the exact length of a month)
DayNumber(d) == d.ym * 30 + d.dd

CustomerTxns(txns, cid) ==
    LET Test(t) == t.customer_id = cid IN SelectSeq(txns, Test)

CountStatus(rows, status) ==
    LET Test(t) == t.payment_status = status IN Len(SelectSeq(rows, Test))

\* delays: max(0, paid - due) in days over the rows that carry both dates
Delays(rows) ==
    LET Test(t) == HasDate(t.payment_received_date) /\ HasDate(t.payment_due_date)
        dated == SelectSeq(rows, Test)
    IN  [i \in 1..Len(dated) |->
            Max2(0, dated[i].payment_received_date[1] - dated[i].payment_due_date[1])]

\* the daysSinceLastTxn / 180 window of the recency feature
RecencyWindowDays == 180

\* customerFeatures[customerId]
RawFeatures(txns, custs, cid, today) ==
    LET rows == CustomerTxns(txns, cid)
        customer == custs[CHOOSE j \in 1..Len(custs) : custs[j].id = cid]
        totalTxns == Len(rows)
        overdueCount == CountStatus(rows, "Overdue")
        totalRevenue == SumSeq([i \in 1..Len(rows) |-> ParseFloatOr0(rows[i].total_amount)])
        totalOutstanding == SumSeq([i \in 1..Len(rows) |-> ParseFloatOr0(rows[i].outstanding_amount)])
        delays == Delays(rows)
        avgDelay == IF Len(delays) > 0 THEN RoundScaled(SumSeq(delays), Len(delays), 3) ELSE 0
        creditLimit == IF ParseFloatOr0(customer.credit_limit) = 0 THEN 1
                       ELSE ParseFloatOr0(customer.credit_limit)
        lastTxnDate == MaxOf({DayNumber(rows[i].transaction_date) : i \in 1..Len(rows)})
        daysSinceLastTxn == today - lastTxnDate
    IN  [overdue_ratio |-> ScaledDiv(overdueCount, totalTxns, 6),
         outstanding_ratio |-> IF totalRevenue > 0
                               THEN ScaledDiv(totalOutstanding, totalRevenue, 6) ELSE 0,
         avg_payment_delay |-> avgDelay,
         credit_utilization |-> Min2(ONE, ScaledDiv(totalOutstanding, creditLimit, 6)),
         recency_score |-> Min2(ONE, ScaledDiv(daysSinceLastTxn, RecencyWindowDays, 6)),
         partial_payment_ratio |-> ScaledDiv(CountStatus(rows, "Partial"), totalTxns, 6),
         overdueCount |-> overdueCount,
         totalOutstanding |-> totalOutstanding,
         totalRevenue |-> totalRevenue,
         avgDelay |-> avgDelay,
         totalTxns |-> totalTxns]

\* Object.keys(customerFeatures): the customers of the transactions, in
\* first-appearance order, that exist in customerMap
ScoredCustomerIds(txns, custs) ==
    LET cids == DistinctInOrder([i \in 1..Len(txns) |-> txns[i].customer_id])
        Known(cid) == \E j \in 1..Len(custs) : custs[j].id = cid
    IN  SelectSeq(cids, Known)

FeatureMin(feats, f) == MinOf({feats[i][f] : i \in 1..Len(feats)})
FeatureMax(feats, f) == MaxOf({feats[i][f] : i \in 1..Len(feats)})

\* a variant that leaves the raw value when the range is 0
Normalized_RawOnZeroRange(feats, i, f, k) ==
    LET range == FeatureMax(feats, f) - FeatureMin(feats, f)
    IN  IF range > 0 THEN ScaledDiv(feats[i][f] - FeatureMin(feats, f), range, k)
        ELSE feats[i][f]

Normalized_Unshifted(feats, i, f, k) ==
    LET range == FeatureMax(feats, f) - FeatureMin(feats, f)
    IN  IF range > 0 THEN ScaledDiv(feats[i][f], range, k) ELSE 0

\* normalized = range > 0 ? (features[f] - featureMin[f]) / range : 0,
\* to k decimal digits
Normalized(feats, i, f, k) ==
    LET range == FeatureMax(feats, f) - FeatureMin(feats, f)
    IN  IF range > 0 THEN ScaledDiv(feats[i][f] - FeatureMin(feats, f), range, k)
        ELSE 0

\* normalizedFeatures[f] = Math.round(normalized * 1000) / 1000, in thousandths
NormalizedFeature(feats, i, f) == RoundDrop(Normalized(feats, i, f, 4), 1)

\* weightedSum = sum of normalized * WEIGHTS[f], in units of 10^-8
WeightedSum(feats, i) ==
    SumSeq([j \in 1..Len(featureNames) |->
        Normalized(feats, i, featureNames[j], 6) * WEIGHTS[featureNames[j]]])

\* sigmoid((weightedSum - 0.5) * 6), in millionths
DelayProbability(feats, i) ==
    sigmoid(((WeightedSum(feats, i) - 50 * ONE) * 6) \div 100)

HighRiskScore == 6000
MediumRiskScore == 3000

RiskLevel_Strict(riskScore) ==
    IF riskScore > HighRiskScore THEN "High"
    ELSE IF riskScore > MediumRiskScore THEN "Medium"
    ELSE "Low"

\* riskLevel from riskScore (in hundredths)
RiskLevel(riskScore) ==
    IF riskScore >= HighRiskScore THEN "High"
    ELSE IF riskScore >= MediumRiskScore THEN "Medium"
    ELSE "Low"

RiskRow(feats, cids, i) ==
    LET features == feats[i]
        delayProbability == DelayProbability(feats, i)
        riskScore == RoundDrop(delayProbability, 2)
        expectedDelayDays ==
            IF features.overdueCount > 0
            THEN 100 * RoundDrop(MulS6(features.avgDelay, ONE + delayProbability), 2)
            ELSE features.avgDelay
    IN  [customer_id |-> cids[i],
         risk_score |-> riskScore,
         risk_level |-> RiskLevel(riskScore),
         payment_delay_probability |-> RoundDrop(delayProbability, 2),
         expected_delay_days |-> RoundDrop(expectedDelayDays, 2),
         overdue_invoice_count |-> features.overdueCount,
         total_outstanding |-> 100 * features.totalOutstanding,
         credit_utilization |-> RoundDrop(features.credit_utilization, 2),
         features |-> [f \in Range(featureNames) |-> NormalizedFeature(feats, i, f)]]

scoreCustomerRisk(txns, custs, today) ==
    LET cids == ScoredCustomerIds(txns, custs)
        feats == [i \in 1..Len(cids) |-> RawFeatures(txns, custs, cids[i], today)]
    IN  [i \in 1..Len(cids) |-> RiskRow(feats, cids, i)]

-----------------------------------------------------------------------------
(* Cash Flow Predictor.  Amounts are in thousandths of a currency unit,    *)
(* rates in millionths.                                                    *)

\* a * b / 10^6 for a >= 0 and b of either sign
SignedMulS6(a, b) == IF b < 0 THEN -MulS6(a, -b) ELSE MulS6(a, b)

\* Math.sqrt(v), rounded down, for 0 <= v < 2^31
RECURSIVE IsqrtBetween(_, _, _)
IsqrtBetween(v, lo, hi) ==
    IF lo >= hi THEN lo
    ELSE LET mid == (lo + hi + 1) \div 2
         IN  IF mid * mid <= v THEN IsqrtBetween(v, mid, hi)
             ELSE IsqrtBetween(v, lo, mid - 1)

Isqrt(v) == IsqrtBetween(v, 0, Min2(v, 46340))

\* smoothing factors, in tenths
ALPHA == 3
BETA == 1

\* a variant that counts only the rows of status Paid as paid
CashMonthly_PaidOnly(txns, m) ==
    LET Test(t) == Month(t) = m
        rows == SelectSeq(txns, Test)
        amount(t) == ParseFloatOr0(t.total_amount)
        paidOf(t) == IF t.payment_status = "Paid" THEN amount(t) ELSE 0
    IN  [revenue |-> SumSeq([i \in 1..Len(rows) |-> amount(rows[i])]),
         paid    |-> SumSeq([i \in 1..Len(rows) |-> paidOf(rows[i])])]

\* monthlyData[month] = {revenue, paid}, in currency units
CashMonthly(txns, m) ==
    LET Test(t) == Month(t) = m
        rows == SelectSeq(txns, Test)
        amount(t) == ParseFloatOr0(t.total_amount)
        paidOf(t) == IF t.payment_status = "Paid" THEN amount(t)
                     ELSE Max2(0, amount(t) - ParseFloatOr0(t.outstanding_amount))
    IN  [revenue |-> SumSeq([i \in 1..Len(rows) |-> amount(rows[i])]),
         paid    |-> SumSeq([i \in 1..Len(rows) |-> paidOf(rows[i])])]

\* collectionRates: revenue > 0 ? paid / revenue : 0, in millionths
CollectionRate(d) == IF d.revenue > 0 THEN ScaledDiv(d.paid, d.revenue, 6) ELSE 0

\* exponentialSmoothing(series, alpha).forecast: the last smoothed value
RECURSIVE exponentialSmoothing(_)
exponentialSmoothing(series) ==
    IF series = <<>> THEN 0
    ELSE IF Len(series) = 1 THEN series[1]
    ELSE RoundScaled(ALPHA * series[Len(series)]
                     + (10 - ALPHA) * exponentialSmoothing(SubSeq(series, 1, Len(series) - 1)),
                     10, 0)

\* the (level, trend, smoothed) of holtSmoothing after the first i values
RECURSIVE HoltState(_, _)
HoltState(series, i) ==
    IF i = 1 THEN [level |-> series[1], trend |-> series[2] - series[1],
                   smoothed |-> <<series[1]>>]
    ELSE LET prev == HoltState(series, i - 1)
             level == RoundScaled(ALPHA * series[i]
                                  + (10 - ALPHA) * (prev.level + prev.trend), 10, 0)
             trend == RoundScaled(BETA * (level - prev.level)
                                  + (10 - BETA) * prev.trend, 10, 0)
         IN  [level |-> level, trend |-> trend,
              smoothed |-> Append(prev.smoothed, level + trend)]

\* holtSmoothing(series, 0.3, 0.1), series of length >= 2
holtSmoothing(series) ==
    LET st == HoltState(series, Len(series))
    IN  [forecasts |-> [h \in 1..3 |-> st.level + h * st.trend],
         level |-> st.level, trend |-> st.trend, smoothed |-> st.smoothed]

\* ss.standardDeviation(rates): population standard deviation, in millionths
\* (the deviations are squared in ten-thousandths)
standardDeviation(rates) ==
    LET n == Len(rates)
        mean == SumSeq(rates) \div n
        dev(i) == RoundDrop(rates[i] - mean, 2)
        variance == SumSeq([i \in 1..n |-> dev(i) * dev(i)]) \div n
    IN  100 * Isqrt(variance)

\* confidence = Math.round(max(0, min(99, (1 - mape) * 100)) * 100) / 100,
\* in hundredths
CashConfidence(revenueSeries, smoothed) ==
    LET n == Len(revenueSeries)
        errorAt(i) == IF revenueSeries[i] > 0
                      THEN ScaledDiv(Abs(revenueSeries[i] - smoothed[i]), revenueSeries[i], 6)
                      ELSE 0
        mape == SumSeq([i \in 1..n |-> errorAt(i)]) \div n
    IN  RoundDrop(Max2(0, Min2(99 * 10000, ONE - mape)), 2)

MinCashMonthsTwo == 3 - 1

\* the minimum number of months the predictor needs
MinCashMonths == 3

CashFlowRow(lastMonth, i, forecast, avgCollectionRate, collectionStdDev, confidence, zone) ==
    LET predictedRevenue == Max2(0, forecast)
        bestRate == Min2(ONE, avgCollectionRate + collectionStdDev)
        worstRate == Max2(0, avgCollectionRate - collectionStdDev)
        likelyRate == avgCollectionRate
        bestCase == SignedMulS6(predictedRevenue, bestRate)
        worstCase == SignedMulS6(predictedRevenue, worstRate)
        mostLikely == SignedMulS6(predictedRevenue, likelyRate)
        expectedDelay == SignedMulS6(predictedRevenue, ONE - likelyRate)
    IN  [forecast_month |-> FutureMonthISO(lastMonth, i + 1, zone),
         expected_inflow |-> RoundDrop(mostLikely, 1),
         best_case_inflow |-> RoundDrop(bestCase, 1),
         worst_case_inflow |-> RoundDrop(worstCase, 1),
         most_likely_inflow |-> RoundDrop(mostLikely, 1),
         expected_delay |-> RoundDrop(expectedDelay, 1),
         collection_rate |-> RoundDrop(likelyRate, 2),
         confidence_score |-> confidence,
         model_used |-> "holt_exponential_smoothing"]

forecastCashFlow(txns, zone) ==
    LET sortedMonths == AllMonths(txns)
        monthlyData == [k \in 1..Len(sortedMonths) |-> CashMonthly(txns, sortedMonths[k])]
        revenueSeries == [k \in 1..Len(sortedMonths) |-> 1000 * monthlyData[k].revenue]
        collectionRates == [k \in 1..Len(sortedMonths) |-> CollectionRate(monthlyData[k])]
        revenueHolt == holtSmoothing(revenueSeries)
        avgCollectionRate == exponentialSmoothing(collectionRates)
        collectionStdDev == standardDeviation(collectionRates)
        confidence == CashConfidence(revenueSeries, revenueHolt.smoothed)
    IN  IF Len(sortedMonths) < MinCashMonths THEN <<>>
        ELSE [j \in 1..3 |->
                CashFlowRow(sortedMonths[Len(sortedMonths)], j - 1,
                            revenueHolt.forecasts[j], avgCollectionRate,
                            collectionStdDev, confidence, zone)]

-----------------------------------------------------------------------------
(* Inventory Optimizer.  Quantities and stock are whole liters; the rows   *)
(* carry the demand, the stockout probability, the days of stock left, the *)
(* recommendation and the confidence.                                      *)

\* productMonthly[pid][month], 0 for a month without sales of the product
MonthlyDemand(txns, pid, m) == MonthlyOf(txns, pid, m).quantity

\* the minimum length of the demand series
MinDemandMonths == 2

\* the value of days_until_stockout when there is no demand, in tenths
NoDemandDays == 9990

\* Z_95, in thousandths, and the lead time and the days of a month
Z_95 == 1645
DEFAULT_LEAD_TIME_DAYS == 7
DaysPerMonth == 30

\* Math.exp(-v) for v >= 0, in millionths: 1 / exp(v) up to 3, the square of
\* exp(-v / 2) beyond, and 0 from 14 on (below one millionth)
RECURSIVE ExpNeg6(_)
ExpNeg6(v) ==
    IF v <= 3 * ONE THEN ScaledDiv(ONE, Exp6(v), 6)
    ELSE IF v >= 14 * ONE THEN 0
    ELSE MulS6(ExpNeg6(v \div 2), ExpNeg6(v \div 2))

\* Math.sqrt(v) for v in millionths, 0 <= v < 36 * 10^6, in millionths
RECURSIVE Sqrt6Between(_, _, _)
Sqrt6Between(v, lo, hi) ==
    IF lo >= hi THEN lo
    ELSE LET mid == (lo + hi + 1) \div 2
         IN  IF MulS6(mid, mid) <= v THEN Sqrt6Between(v, mid, hi)
             ELSE Sqrt6Between(v, lo, mid - 1)

Sqrt6(v) == Sqrt6Between(v, 0, 6 * ONE)

\* the coefficients of normalCDF, in millionths
CDF_A == <<254830, -284497, 1421414, -1453152, 1061405>>
CDF_P == 327591

\* 1 - normalCDF(z), in millionths, where z = num / sqrt(den2) with den2 > 0:
\* 1 below -6 and 0 above 6, else from the polynomial in
\* t = 1 / (1 + p * x), x = |z| / sqrt(2)
UpperTail(num, den2) ==
    IF Abs(num) > 46340 \/ num * num > 36 * den2
    THEN (IF num < 0 THEN ONE ELSE 0)
    ELSE LET x2 == ScaledDiv(num * num, 2 * den2, 6)
             x == Sqrt6(x2)
             t == ScaledDiv(ONE, ONE + MulS6(CDF_P, x), 6)
             h5 == SignedMulS6(t, CDF_A[5])
             h4 == SignedMulS6(t, h5 + CDF_A[4])
             h3 == SignedMulS6(t, h4 + CDF_A[3])
             h2 == SignedMulS6(t, h3 + CDF_A[2])
             h1 == SignedMulS6(t, h2 + CDF_A[1])
             y == ONE - MulS6(h1, ExpNeg6(x2))
             cdf == IF num < 0 THEN (ONE - y) \div 2 ELSE (ONE + y) \div 2
         IN  ONE - cdf

\* inventoryMap[pid]: the last inventory record of the product, if any
HasInventory(inv, pid) == \E j \in 1..Len(inv) : inv[j].product_id = pid

InventoryOf(inv, pid) ==
    inv[CHOOSE j \in 1..Len(inv) : inv[j].product_id = pid
            /\ \A l \in (j + 1)..Len(inv) : inv[l].product_id # pid]

\* currentStock = inv ? (parseFloat(inv.current_stock_liters) || 0) : 0
CurrentStock(inv, pid) ==
    IF HasInventory(inv, pid)
    THEN ParseFloatOr0(InventoryOf(inv, pid).current_stock_liters)
    ELSE 0

\* demandSeries of a product over allMonths
DemandSeries(txns, pid) ==
    [k \in 1..Len(AllMonths(txns)) |-> MonthlyDemand(txns, pid, AllMonths(txns)[k])]

\* n^2 times the variance of the series: with it, stdDevDemand = sqrt(V) / n
VarianceN2(series) ==
    Len(series) * SumSeq([k \in 1..Len(series) |-> series[k] * series[k]])
        - SumSeq(series) * SumSeq(series)

\* (currentStock - demandDuringLT) / stdDuringLT = StockMargin / sqrt(StdLT2):
\* both sides of the quotient multiplied by 30 * n
StockMargin(series, stock) ==
    DaysPerMonth * Len(series) * stock - DEFAULT_LEAD_TIME_DAYS * SumSeq(series)

StdLT2(series) == DaysPerMonth * DEFAULT_LEAD_TIME_DAYS * VarianceN2(series)

\* currentStock < reorderPoint, reorderPoint = avgDailyDemand * leadTime +
\* Z_95 * dailyStdDev * sqrt(leadTime): StockMargin < Z_95 * sqrt(StdLT2)
BelowReorderPoint(series, stock) ==
    LET num == StockMargin(series, stock)
        bound == MulS6(Z_95 * Z_95, StdLT2(series))
    IN  \/ num < 0
        \/ /\ num <= 46340
           /\ \/ num * num < bound
              \/ num * num = bound /\ StdLT2(series) % 40000 # 0

\* daysUntilStockout, in tenths
DaysUntilStockout(series, stock) ==
    IF SumSeq(series) > 0
    THEN RoundScaled(DaysPerMonth * stock * Len(series), SumSeq(series), 1)
    ELSE NoDemandDays

StockoutProb_NoStockCheck(series, stock) ==
    IF StdLT2(series) > 0
    THEN UpperTail(StockMargin(series, stock), StdLT2(series))
    ELSE IF stock <= 0 THEN ONE
    ELSE 0

\* stockoutProb, in millionths
StockoutProb(series, stock) ==
    IF StdLT2(series) > 0 /\ stock > 0
    THEN UpperTail(StockMargin(series, stock), StdLT2(series))
    ELSE IF stock <= 0 THEN ONE
    ELSE 0

Recommendation_DaysFirst(series, stock) ==
    IF stock <= 0 THEN "CRITICAL"
    ELSE IF DaysUntilStockout(series, stock) < 300 THEN "Plan reorder"
    ELSE IF BelowReorderPoint(series, stock) THEN "Urgent"
    ELSE IF DaysUntilStockout(series, stock) > 1200 THEN "Overstocked"
    ELSE "Healthy stock"

\* the decision ladder of the recommendation; the text is stood for by the
\* words it starts with
Recommendation(series, stock) ==
    IF stock <= 0 THEN "CRITICAL"
    ELSE IF BelowReorderPoint(series, stock) THEN "Urgent"
    ELSE IF DaysUntilStockout(series, stock) < 300 THEN "Plan reorder"
    ELSE IF DaysUntilStockout(series, stock) > 1200 THEN "Overstocked"
    ELSE "Healthy stock"

\* one row: demand in hundredths, probability in ten-thousandths, days in
\* tenths, confidence in hundredths
InventoryRow(txns, inv, pid) ==
    LET series == DemandSeries(txns, pid)
        stock == CurrentStock(inv, pid)
        dataMonths == Len(ProductMonths(txns, pid))
    IN  [product_id |-> pid,
         predicted_monthly_demand |-> RoundScaled(SumSeq(series), Len(series), 2),
         stockout_probability |-> RoundDrop(StockoutProb(series, stock), 2),
         days_until_stockout |-> DaysUntilStockout(series, stock),
         recommendation |-> Recommendation(series, stock),
         confidence_score |-> 100 * Min2(95, 50 + dataMonths * 3)]

\* a variant that analyses only the products that were sold
optimizeInventory_SoldOnly(txns, prods, inv) ==
    IF Len(AllMonths(txns)) < MinDemandMonths THEN <<>>
    ELSE LET sold == SelectSeq(prods, LAMBDA p : Len(ProductTxns(txns, p.id)) > 0)
         IN  [k \in 1..Len(sold) |-> InventoryRow(txns, inv, sold[k].id)]

optimizeInventory(txns, prods, inv) ==
    IF Len(AllMonths(txns)) < MinDemandMonths THEN <<>>
    ELSE [k \in 1..Len(prods) |-> InventoryRow(txns, inv, prods[k].id)]

-----------------------------------------------------------------------------
(* The store and main() *)

MODEL_VERSION == "v1.0.0"

\* rows fetched by one page query (1000 in the program; scaled down so that
\* full and partial pages occur within MaxStoreTxns)
pageSize == 2

\* .order('transaction_date', { ascending: true }): any order of the table
\* that is sorted by date (rows of the same date come in no fixed order)
DateOrders(tbl) ==
    LET n == Len(tbl)
        perms == {f \in [1..n -> 1..n] : \A i, j \in 1..n : i # j => f[i] # f[j]}
        Sorted(q) == \A i \in 1..(Len(q) - 1) :
                        DayNumber(q[i].transaction_date) <= DayNumber(q[i + 1].transaction_date)
    IN  {q \in {[i \in 1..n |-> tbl[f[i]]] : f \in perms} : Sorted(q)}

\* .range(from, to) of an ordered result: rows from..to, 0-based, inclusive
RangeOf(q, from, to) == SubSeq(q, from + 1, Min2(to + 1, Len(q)))

\* rows.map(r => ({ ...r, prediction_run_id: runId }))
Tagged(rows, id) ==
    [i \in 1..Len(rows) |->
        [f \in DOMAIN rows[i] \cup {"prediction_run_id"} |->
            IF f = "prediction_run_id" THEN id ELSE rows[i][f]]]

TotalRows ==
    Len(transaction_predictions) + Len(customer_risk_scores)
    + Len(cash_flow_forecasts) + Len(inventory_forecasts)

\* throw new Error(msg), caught by main().catch: logged, process.exit(1)
Throw(msg) ==
    /\ thrown' = msg
    /\ pc' = "failed"

\* the process is started (npm run predict)
StartMain ==
    /\ pc \in {"idle", "done", "failed"}
    /\ executions < MaxRuns
    /\ rowsBefore' = TotalRows
    /\ pc' = "fetch_transactions"
    /\ executions' = executions + 1
    /\ page' = 0
    /\ allTransactions' = <<>>
    /\ transactions' = <<>>
    /\ customers' = <<>>
    /\ products' = <<>>
    /\ inventory' = <<>>
    /\ runId' = 0
    /\ salesPredictions' = <<>>
    /\ riskScores' = <<>>
    /\ cashFlowForecasts' = <<>>
    /\ inventoryForecasts' = <<>>
    /\ thrown' = "none"
    /\ writeErrors' = {}
    /\ modelsRun' = {}
    /\ UNCHANGED <<storeVars, prediction_runs, tableVars, envVars, previousRows, authVars, dashVars>>

\* one iteration of the page loop
FetchTransactionsPage(ok) ==
    /\ pc = "fetch_transactions"
    /\ IF ~ok
       THEN /\ Throw("Failed to fetch transactions")
            /\ UNCHANGED <<page, allTransactions, transactions>>
       ELSE \E q \in DateOrders(dbTransactions) :
              LET data == RangeOf(q, page * pageSize, (page + 1) * pageSize - 1)
              IN  /\ allTransactions' = allTransactions \o data
                  /\ IF Len(data) < pageSize
                     THEN /\ transactions' = allTransactions'
                          /\ pc' = "fetch_customers"
                          /\ page' = page
                     ELSE /\ page' = page + 1
                          /\ pc' = pc
                          /\ transactions' = transactions
                  /\ thrown' = thrown
    /\ UNCHANGED <<storeVars, prediction_runs, tableVars, envVars, customers,
                   products, inventory, runId, salesPredictions, riskScores,
                   cashFlowForecasts, inventoryForecasts, writeErrors,
                   modelsRun, executions, rowsBefore, previousRows, authVars, dashVars>>

FetchCustomers(ok) ==
    /\ pc = "fetch_customers"
    /\ IF ok THEN customers' = dbCustomers /\ pc' = "fetch_products" /\ thrown' = thrown
       ELSE Throw("Failed to fetch customers") /\ customers' = customers
    /\ UNCHANGED <<storeVars, prediction_runs, tableVars, envVars, page,
                   allTransactions, transactions, products, inventory, runId,
                   salesPredictions, riskScores, cashFlowForecasts,
                   inventoryForecasts, writeErrors, modelsRun, executions, rowsBefore, previousRows, authVars, dashVars>>

FetchProducts(ok) ==
    /\ pc = "fetch_products"
    /\ IF ok THEN products' = dbProducts /\ pc' = "fetch_inventory" /\ thrown' = thrown
       ELSE Throw("Failed to fetch products") /\ products' = products
    /\ UNCHANGED <<storeVars, prediction_runs, tableVars, envVars, page,
                   allTransactions, transactions, customers, inventory, runId,
                   salesPredictions, riskScores, cashFlowForecasts,
                   inventoryForecasts, writeErrors, modelsRun, executions, rowsBefore, previousRows, authVars, dashVars>>

FetchInventory_LogsOnly(ok) ==
    /\ pc = "fetch_inventory"
    /\ inventory' = (IF ok THEN dbInventory ELSE <<>>)
    /\ thrown' = (IF ok THEN thrown ELSE "Failed to fetch inventory")
    /\ pc' = "create_run"
    /\ UNCHANGED <<storeVars, prediction_runs, tableVars, envVars, page,
                   allTransactions, transactions, customers, products, runId,
                   salesPredictions, riskScores, cashFlowForecasts,
                   inventoryForecasts, writeErrors, modelsRun, executions, rowsBefore, previousRows, authVars, dashVars>>

FetchInventory(ok) ==
    /\ pc = "fetch_inventory"
    /\ IF ok THEN inventory' = dbInventory /\ pc' = "create_run" /\ thrown' = thrown
       ELSE Throw("Failed to fetch inventory") /\ inventory' = inventory
    /\ UNCHANGED <<storeVars, prediction_runs, tableVars, envVars, page,
                   allTransactions, transactions, customers, products, runId,
                   salesPredictions, riskScores, cashFlowForecasts,
                   inventoryForecasts, writeErrors, modelsRun, executions, rowsBefore, previousRows, authVars, dashVars>>

\* insert into prediction_runs ... .select().single(); the store assigns the id
CreateRun(ok) ==
    /\ pc = "create_run"
    /\ IF ok
       THEN /\ prediction_runs' = Append(prediction_runs,
                  [id |-> Len(prediction_runs) + 1,
                   model_version |-> MODEL_VERSION,
                   prediction_horizon |-> "3 months",
                   status |-> "running",
                   total_predictions |-> NULL,
                   avg_confidence |-> NULL])
            /\ runId' = Len(prediction_runs) + 1
            /\ pc' = "sales"
            /\ thrown' = thrown
       ELSE /\ Throw("Failed to create prediction run")
            /\ UNCHANGED <<prediction_runs, runId>>
    /\ UNCHANGED <<storeVars, tableVars, envVars, page, allTransactions,
                   transactions, customers, products, inventory,
                   salesPredictions, riskScores, cashFlowForecasts,
                   inventoryForecasts, writeErrors, modelsRun, executions, rowsBefore, previousRows, authVars, dashVars>>

InsertBatch_Replacing(table, rows, ok) ==
    IF Len(rows) > 0 /\ ok THEN Tagged(rows, runId) ELSE table

\* insert(rows) into a table when the batch is not empty; an error of the
\* store is logged and the pipeline goes on
InsertBatch(table, rows, ok) ==
    IF Len(rows) > 0 /\ ok THEN table \o Tagged(rows, runId) ELSE table

InsertErrors(name, rows, ok) ==
    IF Len(rows) > 0 /\ ~ok THEN writeErrors \cup {name} ELSE writeErrors

RunSalesForecaster(ok) ==
    /\ pc = "sales"
    /\ salesPredictions' = forecastSales(transactions, products, tz)
    /\ transaction_predictions' =
          InsertBatch(transaction_predictions, salesPredictions', ok)
    /\ writeErrors' = InsertErrors("transaction_predictions", salesPredictions', ok)
    /\ modelsRun' = modelsRun \cup {"sales"}
    /\ pc' = "risk"
    /\ UNCHANGED <<storeVars, prediction_runs, customer_risk_scores,
                   cash_flow_forecasts, inventory_forecasts, envVars, page,
                   allTransactions, transactions, customers, products,
                   inventory, runId, riskScores, cashFlowForecasts,
                   inventoryForecasts, thrown, executions, rowsBefore, previousRows, authVars, dashVars>>

RunRiskScorer_Aborting(ok) ==
    /\ pc = "risk"
    /\ riskScores' = scoreCustomerRisk(transactions, customers, now)
    /\ customer_risk_scores' =
          InsertBatch(customer_risk_scores, riskScores', ok)
    /\ writeErrors' = InsertErrors("customer_risk_scores", riskScores', ok)
    /\ modelsRun' = modelsRun \cup {"risk"}
    /\ IF Len(riskScores') > 0 /\ ~ok
       THEN Throw("Failed to write risk scores")
       ELSE pc' = "cashflow" /\ thrown' = thrown
    /\ UNCHANGED <<storeVars, prediction_runs, transaction_predictions,
                   cash_flow_forecasts, inventory_forecasts, envVars, page,
                   allTransactions, transactions, customers, products,
                   inventory, runId, salesPredictions, cashFlowForecasts,
                   inventoryForecasts, executions, rowsBefore, previousRows, authVars, dashVars>>

RunRiskScorer(ok) ==
    /\ pc = "risk"
    /\ riskScores' = scoreCustomerRisk(transactions, customers, now)
    /\ customer_risk_scores' =
          InsertBatch(customer_risk_scores, riskScores', ok)
    /\ writeErrors' = InsertErrors("customer_risk_scores", riskScores', ok)
    /\ modelsRun' = modelsRun \cup {"risk"}
    /\ pc' = "cashflow"
    /\ UNCHANGED <<storeVars, prediction_runs, transaction_predictions,
                   cash_flow_forecasts, inventory_forecasts, envVars, page,
                   allTransactions, transactions, customers, products,
                   inventory, runId, salesPredictions, cashFlowForecasts,
                   inventoryForecasts, thrown, executions, rowsBefore, previousRows, authVars, dashVars>>

RunCashFlowPredictor_Consuming(ok) ==
    /\ pc = "cashflow"
    /\ transactions' = <<>>
    /\ cashFlowForecasts' = forecastCashFlow(transactions, tz)
    /\ cash_flow_forecasts' =
          InsertBatch(cash_flow_forecasts, cashFlowForecasts', ok)
    /\ writeErrors' = InsertErrors("cash_flow_forecasts", cashFlowForecasts', ok)
    /\ modelsRun' = modelsRun \cup {"cashflow"}
    /\ pc' = "inventory"
    /\ UNCHANGED <<storeVars, prediction_runs, transaction_predictions,
                   customer_risk_scores, inventory_forecasts, envVars, page,
                   allTransactions, customers, products,
                   inventory, runId, salesPredictions, riskScores,
                   inventoryForecasts, thrown, executions, rowsBefore, previousRows, authVars, dashVars>>

RunCashFlowPredictor(ok) ==
    /\ pc = "cashflow"
    /\ cashFlowForecasts' = forecastCashFlow(transactions, tz)
    /\ cash_flow_forecasts' =
          InsertBatch(cash_flow_forecasts, cashFlowForecasts', ok)
    /\ writeErrors' = InsertErrors("cash_flow_forecasts", cashFlowForecasts', ok)
    /\ modelsRun' = modelsRun \cup {"cashflow"}
    /\ pc' = "inventory"
    /\ UNCHANGED <<storeVars, prediction_runs, transaction_predictions,
                   customer_risk_scores, inventory_forecasts, envVars, page,
                   allTransactions, transactions, customers, products,
                   inventory, runId, salesPredictions, riskScores,
                   inventoryForecasts, thrown, executions, rowsBefore, previousRows, authVars, dashVars>>

RunInventoryOptimizer(ok) ==
    /\ pc = "inventory"
    /\ inventoryForecasts' = optimizeInventory(transactions, products, inventory)
    /\ inventory_forecasts' =
          InsertBatch(inventory_forecasts, inventoryForecasts', ok)
    /\ writeErrors' = InsertErrors("inventory_forecasts", inventoryForecasts', ok)
    /\ modelsRun' = modelsRun \cup {"inventory"}
    /\ pc' = "finalize"
    /\ UNCHANGED <<storeVars, prediction_runs, transaction_predictions,
                   customer_risk_scores, cash_flow_forecasts, envVars, page,
                   allTransactions, transactions, customers, products,
                   inventory, runId, salesPredictions, riskScores,
                   cashFlowForecasts, thrown, executions, rowsBefore, previousRows, authVars, dashVars>>

\* allConfidences: the confidence_score of the sales, cash-flow and
\* inventory rows, in hundredths
AllConfidences ==
    [i \in 1..Len(salesPredictions) |-> salesPredictions[i].confidence_score]
    \o [i \in 1..Len(cashFlowForecasts) |-> Num(cashFlowForecasts[i].confidence_score)]
    \o [i \in 1..Len(inventoryForecasts) |-> Num(inventoryForecasts[i].confidence_score)]

\* avgConfidence = Math.round(sum / length * 100) / 100, or 0 for no rows;
\* a NaN among the scores makes the sum NaN
AvgConfidence(confs) ==
    IF Len(confs) = 0 THEN Num(0)
    ELSE IF \E i \in 1..Len(confs) : ~IsNum(confs[i]) THEN NaN
    ELSE Num(RoundScaled(SumSeq([i \in 1..Len(confs) |-> confs[i].v]), Len(confs), 0))

\* a variant that counts the rows the store holds for the run
TotalPredictions_Persisted ==
    Len(SelectSeq(transaction_predictions, LAMBDA r : r.prediction_run_id = runId))
    + Len(SelectSeq(customer_risk_scores, LAMBDA r : r.prediction_run_id = runId))
    + Len(SelectSeq(cash_flow_forecasts, LAMBDA r : r.prediction_run_id = runId))
    + Len(SelectSeq(inventory_forecasts, LAMBDA r : r.prediction_run_id = runId))

TotalPredictions ==
    Len(salesPredictions) + Len(riskScores) + Len(cashFlowForecasts)
    + Len(inventoryForecasts)

\* update(...).eq('id', runId); the result of the update is not looked at
FinalizeRun(ok) ==
    /\ pc = "finalize"
    /\ prediction_runs' =
          IF ok
          THEN [i \in 1..Len(prediction_runs) |->
                  IF prediction_runs[i].id = runId
                  THEN [prediction_runs[i] EXCEPT
                           !.total_predictions = TotalPredictions,
                           !.avg_confidence = AvgConfidence(AllConfidences),
                           !.status = "completed"]
                  ELSE prediction_runs[i]]
          ELSE prediction_runs
    /\ writeErrors' = IF ok THEN writeErrors ELSE writeErrors \cup {"prediction_runs"}
    /\ pc' = "done"
    /\ UNCHANGED <<storeVars, tableVars, envVars, localVars, thrown, modelsRun,
                   executions, rowsBefore, previousRows, authVars, dashVars>>

-----------------------------------------------------------------------------
(* The web application: the useAuth hook and the routes of App *)

\* accounts of Supabase Auth (an auth user is modelled by its email); the
\* user_roles table has a row for the first account only
Emails == {"admin@x", "guest@x"}
user_roles == {[email |-> "admin@x", full_name |-> "Admin", role |-> "admin"]}

\* rows of user_roles with this email; .single() returns an error unless
\* there is exactly one
RoleRows(email) == {r \in user_roles : r.email = email}

\* the values of the user state: null, or the auth user with its role
NoUser == [k |-> "null"]
UserWithRole(email, data) ==
    [k |-> "user", email |-> email, full_name |-> data.full_name, role |-> data.role]

ProtectedRoutes == {"/dashboard", "/sales", "/inventory", "/risk", "/cashflow"}
Paths == ProtectedRoutes \cup {"/login", "/"}

Navigate(to) == [el |-> "Navigate", to |-> to]

PageOf(path) ==
    CASE path = "/dashboard" -> "ExecutiveDashboard"
      [] path = "/sales" -> "SalesIntelligence"
      [] path = "/inventory" -> "InventoryManagement"
      [] path = "/risk" -> "RiskManagement"
      [] path = "/cashflow" -> "CashFlowForecast"

\* a variant of the route table in which /cashflow has no guard
RouteElement_Unguarded(path, u) ==
    IF path = "/login"
    THEN IF u # NoUser THEN Navigate("/dashboard") ELSE [el |-> "Login"]
    ELSE IF path = "/cashflow"
    THEN [el |-> "Dashboard", user |-> u, child |-> PageOf(path)]
    ELSE IF path \in ProtectedRoutes
    THEN IF u = NoUser
         THEN Navigate("/login")
         ELSE [el |-> "Dashboard", user |-> u, child |-> PageOf(path)]
    ELSE Navigate("/login")

\* the element of the route that matches path
RouteElement(path, u) ==
    IF path = "/login"
    THEN IF u # NoUser THEN Navigate("/dashboard") ELSE [el |-> "Login"]
    ELSE IF path \in ProtectedRoutes
    THEN IF u = NoUser
         THEN Navigate("/login")
         ELSE [el |-> "Dashboard", user |-> u, child |-> PageOf(path)]
    ELSE Navigate("/login")

\* what App returns at a location
App(u, l, path) ==
    IF l THEN [el |-> "LoadingSpinner"] ELSE RouteElement(path, u)

\* the location after the <Navigate> elements App renders have taken effect
\* (while loading is true no route is mounted)
RECURSIVE Rendered(_, _, _)
Rendered(u, l, path) ==
    IF App(u, l, path).el = "Navigate"
    THEN Rendered(u, l, App(u, l, path).to)
    ELSE path

NoCall == [at |-> "none", email |-> NULL]

\* what signIn resolves with; NoResult while no call has resolved
NoResult == [k |-> "none"]
SignInSuccess == [k |-> "result", success |-> TRUE]
SignInFailure == [k |-> "result", success |-> FALSE]

RemoveAt(q, i) == SubSeq(q, 1, i - 1) \o SubSeq(q, i + 1, Len(q))

\* before the page is loaded
AppNotMounted ==
    /\ user = NoUser
    /\ loading = TRUE
    /\ error = NULL
    /\ session = NULL
    /\ location = "/"
    /\ sessionCheck = "none"
    /\ events = <<>>
    /\ roleFetches = <<>>
    /\ signOutCall = FALSE
    /\ signInCall = NoCall
    /\ loginUser = NoUser
    /\ loginLoading = TRUE
    /\ signInResult = NoResult

\* the browser loads the application at a path (first visit or reload): the
\* hook starts from its initial state, calls getSession() and subscribes to
\* auth changes; the session of the client persists
LoadApp(path) ==
    /\ user' = NoUser
    /\ loading' = TRUE
    /\ error' = NULL
    /\ location' = path
    /\ sessionCheck' = "pending"
    /\ events' = <<>>
    /\ roleFetches' = <<>>
    /\ signOutCall' = FALSE
    /\ signInCall' = NoCall
    /\ loginUser' = NoUser
    /\ loginLoading' = TRUE
    /\ signInResult' = NoResult
    /\ UNCHANGED <<session, pipelineVars, dashVars>>

\* getSession() resolves
GetSessionResolves ==
    /\ sessionCheck = "pending"
    /\ sessionCheck' = "done"
    /\ IF session # NULL
       THEN /\ Len(roleFetches) < MaxRoleFetches
            /\ roleFetches' = Append(roleFetches, session)
            /\ UNCHANGED <<loading, location>>
       ELSE /\ loading' = FALSE
            /\ location' = Rendered(user, FALSE, location)
            /\ UNCHANGED roleFetches
    /\ UNCHANGED <<user, error, session, events, signOutCall, signInCall,
                   loginVars, pipelineVars, dashVars>>

\* the onAuthStateChange callback runs for the oldest undelivered event
AuthStateChange ==
    /\ events # <<>>
    /\ events' = Tail(events)
    /\ IF Head(events) # NULL
       THEN /\ Len(roleFetches) < MaxRoleFetches
            /\ roleFetches' = Append(roleFetches, Head(events))
            /\ UNCHANGED <<user, loading, location>>
       ELSE /\ user' = NoUser
            /\ loading' = FALSE
            /\ location' = Rendered(NoUser, FALSE, location)
            /\ UNCHANGED roleFetches
    /\ UNCHANGED <<error, session, sessionCheck, signOutCall, signInCall,
                   loginVars, pipelineVars, dashVars>>

\* the user_roles query of a fetchUserRole call returns (ok: without a
\* network error)
fetchUserRole(i, ok) ==
    /\ i \in 1..Len(roleFetches)
    /\ roleFetches' = RemoveAt(roleFetches, i)
    /\ IF ok /\ Cardinality(RoleRows(roleFetches[i])) = 1
       THEN /\ user' = UserWithRole(roleFetches[i],
                                    CHOOSE r \in RoleRows(roleFetches[i]) : TRUE)
            /\ UNCHANGED error
       ELSE /\ error' = "Error fetching user role"
            /\ UNCHANGED user
    /\ loading' = FALSE
    /\ location' = Rendered(user', FALSE, location)
    /\ UNCHANGED <<session, sessionCheck, events, signOutCall, signInCall,
                   loginVars, pipelineVars, dashVars>>

\* Logout is clicked on a page: signOut up to its await
signOut ==
    /\ App(user, loading, location).el = "Dashboard"
    /\ ~signOutCall
    /\ signOutCall' = TRUE
    /\ loading' = TRUE
    /\ UNCHANGED <<user, error, session, location, sessionCheck, events,
                   roleFetches, signInCall, loginVars, pipelineVars, dashVars>>

\* supabase.auth.signOut() returns
SignOutResolves(ok) ==
    /\ signOutCall
    /\ signOutCall' = FALSE
    /\ IF ok
       THEN /\ Len(events) < MaxEvents
            /\ session' = NULL
            /\ events' = Append(events, NULL)
            /\ user' = NoUser
            /\ UNCHANGED error
       ELSE /\ error' = "signOut failed"
            /\ UNCHANGED <<user, session, events>>
    /\ loading' = FALSE
    /\ location' = Rendered(user', FALSE, location)
    /\ UNCHANGED <<sessionCheck, roleFetches, signInCall, loginVars, pipelineVars, dashVars>>

\* the Login page is submitted: signIn of the page's own useAuth up to the
\* await of signInWithPassword
handleSubmit(email) ==
    /\ App(user, loading, location).el = "Login"
    /\ signInCall = NoCall
    /\ signInCall' = [at |-> "signInWithPassword", email |-> email]
    /\ loginLoading' = TRUE
    /\ signInResult' = NoResult
    /\ UNCHANGED <<user, loading, error, session, location, sessionCheck,
                   events, roleFetches, signOutCall, loginUser, pipelineVars,
                   dashVars>>

\* signInWithPassword returns: on success the client holds the session and
\* notifies the subscribers, and signIn goes on to fetchUserRole; on an
\* error signIn returns { success: false } after its finally block
SignInResolves(ok) ==
    /\ signInCall.at = "signInWithPassword"
    /\ IF ok
       THEN /\ Len(events) < MaxEvents
            /\ session' = signInCall.email
            /\ events' = Append(events, signInCall.email)
            /\ signInCall' = [signInCall EXCEPT !.at = "fetchUserRole"]
            /\ UNCHANGED <<loginLoading, signInResult>>
       ELSE /\ signInCall' = NoCall
            /\ loginLoading' = FALSE
            /\ signInResult' = SignInFailure
            /\ UNCHANGED <<session, events>>
    /\ UNCHANGED <<user, loading, error, location, sessionCheck, roleFetches,
                   signOutCall, loginUser, pipelineVars, dashVars>>

\* the fetchUserRole awaited by signIn returns (ok: the user_roles query had
\* no network error): it catches its own error, so signIn returns
\* { success: true } either way
SignInFetchUserRole(ok) ==
    /\ signInCall.at = "fetchUserRole"
    /\ IF ok /\ Cardinality(RoleRows(signInCall.email)) = 1
       THEN loginUser' = UserWithRole(signInCall.email,
                               CHOOSE r \in RoleRows(signInCall.email) : TRUE)
       ELSE UNCHANGED loginUser
    /\ loginLoading' = FALSE
    /\ signInResult' = SignInSuccess
    /\ signInCall' = [signInCall EXCEPT !.at = "navigate"]
    /\ UNCHANGED <<user, loading, error, session, location, sessionCheck,
                   events, roleFetches, signOutCall, pipelineVars, dashVars>>

\* the page got success from signIn and calls navigate('/dashboard'); when
\* App shows the spinner no router is mounted and the call may have no
\* effect
LoginNavigates ==
    /\ signInCall.at = "navigate"
    /\ signInCall' = NoCall
    /\ \E to \in IF loading THEN {location, "/dashboard"} ELSE {"/dashboard"} :
          location' = Rendered(user, loading, to)
    /\ UNCHANGED <<user, loading, error, session, sessionCheck, events,
                   roleFetches, signOutCall, loginVars, pipelineVars, dashVars>>

\* the session ends outside the page (expiry, sign-out in another tab)
SessionEnds ==
    /\ sessionCheck # "none"
    /\ session # NULL
    /\ Len(events) < MaxEvents
    /\ session' = NULL
    /\ events' = Append(events, NULL)
    /\ UNCHANGED <<user, loading, error, location, sessionCheck, roleFetches,
                   signOutCall, signInCall, loginVars, pipelineVars, dashVars>>

\* the client refreshes the token of the session
TokenRefreshed ==
    /\ sessionCheck # "none"
    /\ session # NULL
    /\ Len(events) < MaxEvents
    /\ events' = Append(events, session)
    /\ UNCHANGED <<user, loading, error, session, location, sessionCheck,
                   roleFetches, signOutCall, signInCall, loginVars, pipelineVars, dashVars>>

\* a link of the navigation bar of Dashboard is followed
FollowLink(path) ==
    /\ App(user, loading, location).el = "Dashboard"
    /\ location' = Rendered(user, loading, path)
    /\ UNCHANGED <<user, loading, error, session, sessionCheck, events,
                   roleFetches, signOutCall, signInCall, loginVars, pipelineVars, dashVars>>

-----------------------------------------------------------------------------
(* The dashboard pages: predictionService and the hooks of usePredictions *)

NoRun == [k |-> "null"]

MLQueries == {"ml-demand", "ml-risk-scores", "ml-cashflow", "ml-inventory"}

NoData == [query |-> "none", runId |-> 0, data |-> <<>>]

\* nothing has been fetched yet
NoDashboard ==
    /\ predictionRun = NoRun
    /\ mlData = NoData

\* a variant of getLatestRun without .eq('status', 'completed')
getLatestRun_AnyStatus(runs, ok) ==
    IF ~ok \/ Len(runs) = 0 THEN NoRun ELSE runs[Len(runs)]

\* select * from prediction_runs where status = 'completed' order by run_at
\* desc limit 1, .single(): the runs are kept in the order of their
\* creation; an error (of the network, or of single() on no row) gives null
getLatestRun(runs, ok) ==
    LET completed == {i \in 1..Len(runs) : runs[i].status = "completed"}
    IN  IF ~ok \/ completed = {}
        THEN NoRun
        ELSE runs[CHOOSE i \in completed : \A j \in completed : j <= i]

\* the table a query of the service reads
TableOf(query) ==
    CASE query = "ml-demand" -> transaction_predictions
      [] query = "ml-risk-scores" -> customer_risk_scores
      [] query = "ml-cashflow" -> cash_flow_forecasts
      [] query = "ml-inventory" -> inventory_forecasts

\* getDemandPredictions, getRiskScores, getCashFlowForecasts and
\* getInventoryForecasts: the rows with .eq('prediction_run_id', runId), or
\* [] on an error
getByRun(table, id, ok) ==
    IF ok THEN SelectSeq(table, LAMBDA r : r.prediction_run_id = id) ELSE <<>>

\* the 'prediction-run' query runs (on mount, or again when it is stale)
usePredictionRun(ok) ==
    /\ predictionRun' = getLatestRun(prediction_runs, ok)
    /\ UNCHANGED <<mlData, pipelineVars, authVars>>

\* one of the ML queries runs with predictionRun?.id; enabled: !!runId
useMLQuery(query, ok) ==
    /\ predictionRun # NoRun
    /\ mlData' = [query |-> query, runId |-> predictionRun.id,
                  data |-> getByRun(TableOf(query), predictionRun.id, ok)]
    /\ UNCHANGED <<predictionRun, pipelineVars, authVars>>

-----------------------------------------------------------------------------
(* Specifications *)

Txn(id, pid, cid, ym, dd, qty, amount, outstanding, status, due, received) ==
    [id |-> id, product_id |-> pid, customer_id |-> cid,
     transaction_date |-> [ym |-> ym, dd |-> dd],
     quantity_liters |-> qty, total_amount |-> amount,
     outstanding_amount |-> outstanding, payment_status |-> status,
     payment_due_date |-> due, payment_received_date |-> received]

\* transactions are numbered 1..Len and kept in date order (the order in
\* which main() receives them)
WithIds(q) == [i \in 1..Len(q) |-> [q[i] EXCEPT !.id = i]]

IsDateSorted(q) ==
    \A i \in 1..(Len(q) - 1) :
        DayNumber(q[i].transaction_date) <= DayNumber(q[i + 1].transaction_date)

NoStore ==
    /\ dbTransactions = <<>>
    /\ dbCustomers = <<>>
    /\ dbProducts = <<>>
    /\ dbInventory = <<>>

NoTables ==
    /\ prediction_runs = <<>>
    /\ transaction_predictions = <<>>
    /\ customer_risk_scores = <<>>
    /\ cash_flow_forecasts = <<>>
    /\ inventory_forecasts = <<>>

NoLocals ==
    /\ page = 0
    /\ allTransactions = <<>>
    /\ runId = 0
    /\ salesPredictions = <<>>
    /\ riskScores = <<>>
    /\ cashFlowForecasts = <<>>
    /\ inventoryForecasts = <<>>
    /\ thrown = "none"
    /\ writeErrors = {}
    /\ modelsRun = {}
    /\ executions = 0
    /\ rowsBefore = 0
    /\ previousRows = <<>>

\* ---- the pipeline over a store ----

StoreMonths == 1..3

StoreTxnKinds ==
    {Txn(0, "p1", "c1", m, 1, 100, 1000, 0, "Paid", NoDate, NoDate) : m \in StoreMonths}

Init ==
    /\ \E n \in 0..MaxStoreTxns : \E q \in [1..n -> StoreTxnKinds] :
          IsDateSorted(q) /\ dbTransactions = WithIds(q)
    /\ dbCustomers = <<[id |-> "c1", credit_limit |-> 5000]>>
    /\ dbProducts = <<[id |-> "p1"]>>
    /\ dbInventory = <<[product_id |-> "p1", current_stock_liters |-> 500]>>
    /\ NoTables
    /\ NoLocals
    /\ AppNotMounted
    /\ NoDashboard
    /\ transactions = <<>>
    /\ customers = <<>>
    /\ products = <<>>
    /\ inventory = <<>>
    /\ pc = "idle"
    /\ now = 4 * 30 + 1
    /\ tz = 0

Next ==
    \/ StartMain
    \/ \E ok \in BOOLEAN : FetchTransactionsPage(ok)
    \/ \E ok \in BOOLEAN : FetchCustomers(ok)
    \/ \E ok \in BOOLEAN : FetchProducts(ok)
    \/ \E ok \in BOOLEAN : FetchInventory(ok)
    \/ \E ok \in BOOLEAN : CreateRun(ok)
    \/ \E ok \in BOOLEAN : RunSalesForecaster(ok)
    \/ \E ok \in BOOLEAN : RunRiskScorer(ok)
    \/ \E ok \in BOOLEAN : RunCashFlowPredictor(ok)
    \/ \E ok \in BOOLEAN : RunInventoryOptimizer(ok)
    \/ \E ok \in BOOLEAN : FinalizeRun(ok)

Spec == Init /\ [][Next]_vars

\* ---- the dashboard reading while the pipeline writes ----

InitDashboard ==
    /\ dbTransactions =
          WithIds([m \in StoreMonths |->
              Txn(0, "p1", "c1", m, 1, 100, 1000, 0, "Paid", NoDate, NoDate)])
    /\ dbCustomers = <<[id |-> "c1", credit_limit |-> 5000]>>
    /\ dbProducts = <<[id |-> "p1"]>>
    /\ dbInventory = <<[product_id |-> "p1", current_stock_liters |-> 500]>>
    /\ NoTables
    /\ NoLocals
    /\ AppNotMounted
    /\ NoDashboard
    /\ transactions = <<>>
    /\ customers = <<>>
    /\ products = <<>>
    /\ inventory = <<>>
    /\ pc = "idle"
    /\ now = 4 * 30 + 1
    /\ tz = 0

NextDashboard ==
    \/ Next
    \/ \E ok \in BOOLEAN : usePredictionRun(ok)
    \/ \E query \in MLQueries, ok \in BOOLEAN : useMLQuery(query, ok)

SpecDashboard == InitDashboard /\ [][NextDashboard]_vars

\* ---- forecastSales applied to bounded inputs ----

SalesMonths == 1..4

\* a sale of product pid in month m: 100 + 10 * (m - 1) litres at unit price
\* 10, or an entry of 0 litres
SalesTxnKinds ==
    {Txn(0, "p2", "c1", m, 1, q, 10 * q, 0, "Paid", NoDate, NoDate) :
        m \in SalesMonths, q \in {0, 100}}
    \cup {Txn(0, "p1", "c1", m, 1, 0, 0, 0, "Paid", NoDate, NoDate) : m \in SalesMonths}
    \cup {Txn(0, "p1", "c1", m, 1, 90 + 10 * m, 900 + 100 * m, 0, "Paid", NoDate, NoDate) :
        m \in SalesMonths}

InitSales ==
    /\ NoStore
    /\ NoTables
    /\ NoLocals
    /\ AppNotMounted
    /\ NoDashboard
    /\ \E n \in 0..MaxSalesTxns : \E q \in [1..n -> SalesTxnKinds] :
          IsDateSorted(q) /\ transactions = WithIds(q)
    /\ products \in {<<[id |-> "p1"]>>, <<[id |-> "p1"], [id |-> "p2"]>>}
    /\ customers = <<>>
    /\ inventory = <<>>
    /\ pc = "input"
    /\ now = 0
    /\ tz \in {0, 1}

ApplyForecastSales ==
    /\ pc = "input"
    /\ salesPredictions' = forecastSales(transactions, products, tz)
    /\ pc' = "output"
    /\ UNCHANGED <<storeVars, prediction_runs, tableVars, envVars, page,
                   allTransactions, transactions, customers, products,
                   inventory, runId, riskScores, cashFlowForecasts,
                   inventoryForecasts, thrown, writeErrors, modelsRun,
                   executions, rowsBefore, previousRows, authVars, dashVars>>

SpecSales == InitSales /\ [][ApplyForecastSales]_vars

\* ---- scoreCustomerRisk applied to bounded inputs ----

\* invoices of 100: paid on time, paid 57 days late, overdue and paid 31 days
\* late (all three in month 6), and overdue and partly paid (57 days
\* late) ones of month 1; c9 is a customer id that is not in the customer
\* table
RiskTxnKinds ==
    {Txn(0, "p1", cid, 6, 1, 10, 100, 0, "Paid", <<10>>, <<10>>) : cid \in {"c1", "c2", "c3", "c9"}}
    \cup {Txn(0, "p1", cid, 6, 1, 10, 100, 0, "Paid", <<10>>, <<67>>) : cid \in {"c1", "c2", "c3"}}
    \cup {Txn(0, "p1", cid, 6, 1, 10, 100, 0, "Overdue", <<10>>, <<41>>) : cid \in {"c1", "c2", "c3"}}
    \cup {Txn(0, "p1", cid, 1, 1, 10, 100, 50, "Overdue", NoDate, NoDate) : cid \in {"c1", "c2", "c3"}}
    \cup {Txn(0, "p1", cid, 1, 1, 10, 100, 50, "Partial", <<10>>, <<67>>) : cid \in {"c1", "c2", "c3"}}

RiskCustomers ==
    <<[id |-> "c1", credit_limit |-> 100], [id |-> "c2", credit_limit |-> 0],
      [id |-> "c3", credit_limit |-> 1000]>>

InitRisk ==
    /\ NoStore
    /\ NoTables
    /\ NoLocals
    /\ AppNotMounted
    /\ NoDashboard
    /\ \E n \in 0..MaxRiskTxns : \E q \in [1..n -> RiskTxnKinds] :
          IsDateSorted(q) /\ transactions = WithIds(q)
    /\ customers = RiskCustomers
    /\ products = <<>>
    /\ inventory = <<>>
    /\ pc = "input"
    /\ now = 7 * 30 + 1
    /\ tz = 0

ApplyScoreCustomerRisk ==
    /\ pc = "input"
    /\ riskScores' = scoreCustomerRisk(transactions, customers, now)
    /\ pc' = "output"
    /\ UNCHANGED <<storeVars, prediction_runs, tableVars, envVars, page,
                   allTransactions, transactions, customers, products,
                   inventory, runId, salesPredictions, cashFlowForecasts,
                   inventoryForecasts, thrown, writeErrors, modelsRun,
                   executions, rowsBefore, previousRows, authVars, dashVars>>

SpecRisk == InitRisk /\ [][ApplyScoreCustomerRisk]_vars

\* ---- forecastCashFlow applied to bounded inputs ----

CashMonths == 1..4

\* invoices: paid, partly collected, overdue, and overpaid (the customer paid
\* 50 more than invoiced, so the outstanding amount is a credit of -50)
CashTxnKinds ==
    {Txn(0, "p1", "c1", m, 1, 10, 100, 0, "Paid", NoDate, NoDate) : m \in CashMonths}
    \cup {Txn(0, "p1", "c1", m, 1, 10, 100, 40, "Partial", NoDate, NoDate) : m \in CashMonths}
    \cup {Txn(0, "p1", "c1", m, 1, 20, 200, 200, "Overdue", NoDate, NoDate) : m \in CashMonths}
    \cup {Txn(0, "p1", "c1", m, 1, 10, 100, -50, "Partial", NoDate, NoDate) : m \in CashMonths}

InitCash ==
    /\ NoStore
    /\ NoTables
    /\ NoLocals
    /\ AppNotMounted
    /\ NoDashboard
    /\ \E n \in 0..MaxCashTxns : \E q \in [1..n -> CashTxnKinds] :
          IsDateSorted(q) /\ transactions = WithIds(q)
    /\ customers = <<>>
    /\ products = <<>>
    /\ inventory = <<>>
    /\ pc = "input"
    /\ now = 0
    /\ tz \in {0, 1}

ApplyForecastCashFlow ==
    /\ pc = "input"
    /\ cashFlowForecasts' = forecastCashFlow(transactions, tz)
    /\ pc' = "output"
    /\ UNCHANGED <<storeVars, prediction_runs, tableVars, envVars, page,
                   allTransactions, transactions, customers, products,
                   inventory, runId, salesPredictions, riskScores,
                   inventoryForecasts, thrown, writeErrors, modelsRun,
                   executions, rowsBefore, previousRows, authVars, dashVars>>

SpecCash == InitCash /\ [][ApplyForecastCashFlow]_vars

\* ---- scoreCustomerRisk applied to populations with credit balances ----

\* invoices of 100 of month 6: paid on time on day 1 or day 20, paid with a
\* credit balance of 50 left (outstanding_amount -50) on day 20, and overdue
\* with 50 outstanding on day 1
PopulationTxnKinds ==
    {Txn(0, "p1", cid, 6, 1, 10, 100, 0, "Paid", <<10>>, <<10>>) : cid \in {"c1", "c2", "c3"}}
    \cup {Txn(0, "p1", cid, 6, 20, 10, 100, 0, "Paid", <<10>>, <<10>>) : cid \in {"c1", "c2", "c3"}}
    \cup {Txn(0, "p1", cid, 6, 20, 10, 100, -50, "Paid", <<10>>, <<10>>) : cid \in {"c1", "c2", "c3"}}
    \cup {Txn(0, "p1", cid, 6, 1, 10, 100, 50, "Overdue", NoDate, NoDate) : cid \in {"c1", "c2", "c3"}}

InitRiskPopulation ==
    /\ NoStore
    /\ NoTables
    /\ NoLocals
    /\ AppNotMounted
    /\ NoDashboard
    /\ \E n \in 0..MaxRiskTxns : \E q \in [1..n -> PopulationTxnKinds] :
          IsDateSorted(q) /\ transactions = WithIds(q)
    /\ customers = RiskCustomers
    /\ products = <<>>
    /\ inventory = <<>>
    /\ pc = "input"
    /\ now = 7 * 30 + 1
    /\ tz = 0

SpecRiskPopulation == InitRiskPopulation /\ [][ApplyScoreCustomerRisk]_vars

\* ---- forecastSales called twice on the same arguments ----

\* between the two calls the process may find itself in another time zone
\* (TZ changed, or the second call made on another host)
HostZoneChange ==
    /\ pc = "output"
    /\ tz' = 1 - tz
    /\ UNCHANGED <<storeVars, prediction_runs, tableVars, pc, localVars, now,
                   thrown, writeErrors, modelsRun, executions, rowsBefore,
                   previousRows, authVars, dashVars>>

ForecastSalesAgain ==
    /\ pc = "output"
    /\ previousRows' = salesPredictions
    /\ salesPredictions' = forecastSales(transactions, products, tz)
    /\ pc' = "again"
    /\ UNCHANGED <<storeVars, prediction_runs, tableVars, envVars, page,
                   allTransactions, transactions, customers, products,
                   inventory, runId, riskScores, cashFlowForecasts,
                   inventoryForecasts, thrown, writeErrors, modelsRun,
                   executions, rowsBefore, authVars, dashVars>>

SpecSalesTwice ==
    InitSales /\ [][ApplyForecastSales \/ HostZoneChange \/ ForecastSalesAgain]_vars

\* ---- scoreCustomerRisk called twice on the same arguments ----

\* the days that may pass between the two calls
ClockSteps == {1, 6 * 30}

\* time passes between the two calls (new Date() of the second call is later)
ClockAdvances ==
    /\ pc = "output"
    /\ now = 7 * 30 + 1
    /\ \E d \in ClockSteps : now' = now + d
    /\ UNCHANGED <<storeVars, prediction_runs, tableVars, pc, localVars, tz,
                   thrown, writeErrors, modelsRun, executions, rowsBefore,
                   previousRows, authVars, dashVars>>

ScoreCustomerRiskAgain ==
    /\ pc = "output"
    /\ previousRows' = riskScores
    /\ riskScores' = scoreCustomerRisk(transactions, customers, now)
    /\ pc' = "again"
    /\ UNCHANGED <<storeVars, prediction_runs, tableVars, envVars, page,
                   allTransactions, transactions, customers, products,
                   inventory, runId, salesPredictions, cashFlowForecasts,
                   inventoryForecasts, thrown, writeErrors, modelsRun,
                   executions, rowsBefore, authVars, dashVars>>

SpecRiskTwice ==
    InitRiskPopulation
        /\ [][ApplyScoreCustomerRisk \/ ClockAdvances \/ ScoreCustomerRiskAgain]_vars

\* ---- optimizeInventory applied to bounded inputs ----

InvMonths == 1..3

\* sales of 30 or 60 litres of p1 and of 30 litres of p2
InvTxnKinds ==
    {Txn(0, "p1", "c1", m, 1, 30, 300, 0, "Paid", NoDate, NoDate) : m \in InvMonths}
    \cup {Txn(0, "p1", "c1", m, 1, 60, 600, 0, "Paid", NoDate, NoDate) : m \in InvMonths}
    \cup {Txn(0, "p2", "c1", m, 1, 30, 300, 0, "Paid", NoDate, NoDate) : m \in InvMonths}

\* the stock of p1, when it has an inventory record; p2 never has one
InvStocks == {-5, 0, 5, 10, 40, 999}

InitInventory ==
    /\ NoStore
    /\ NoTables
    /\ NoLocals
    /\ AppNotMounted
    /\ NoDashboard
    /\ \E n \in 0..MaxInvTxns : \E q \in [1..n -> InvTxnKinds] :
          IsDateSorted(q) /\ transactions = WithIds(q)
    /\ products \in {<<[id |-> "p1"]>>, <<[id |-> "p1"], [id |-> "p2"]>>}
    /\ customers = <<>>
    /\ inventory \in {<<>>} \cup
          {<<[product_id |-> "p1", current_stock_liters |-> st]>> : st \in InvStocks}
    /\ pc = "input"
    /\ now = 0
    /\ tz = 0

ApplyOptimizeInventory ==
    /\ pc = "input"
    /\ inventoryForecasts' = optimizeInventory(transactions, products, inventory)
    /\ pc' = "output"
    /\ UNCHANGED <<storeVars, prediction_runs, tableVars, envVars, page,
                   allTransactions, transactions, customers, products,
                   inventory, runId, salesPredictions, riskScores,
                   cashFlowForecasts, thrown, writeErrors, modelsRun,
                   executions, rowsBefore, previousRows, authVars, dashVars>>

SpecInventory == InitInventory /\ [][ApplyOptimizeInventory]_vars

\* ---- the web application in a browser ----

InitAuth ==
    /\ NoStore
    /\ NoTables
    /\ NoLocals
    /\ AppNotMounted
    /\ NoDashboard
    /\ transactions = <<>>
    /\ customers = <<>>
    /\ products = <<>>
    /\ inventory = <<>>
    /\ pc = "idle"
    /\ now = 0
    /\ tz = 0

NextAuth ==
    \/ \E path \in Paths : LoadApp(path)
    \/ GetSessionResolves
    \/ AuthStateChange
    \/ \E i \in 1..MaxRoleFetches, ok \in BOOLEAN : fetchUserRole(i, ok)
    \/ signOut
    \/ \E ok \in BOOLEAN : SignOutResolves(ok)
    \/ \E email \in Emails : handleSubmit(email)
    \/ \E ok \in BOOLEAN : SignInResolves(ok)
    \/ \E ok \in BOOLEAN : SignInFetchUserRole(ok)
    \/ LoginNavigates
    \/ SessionEnds
    \/ TokenRefreshed
    \/ \E path \in ProtectedRoutes : FollowLink(path)

SpecAuth == InitAuth /\ [][NextAuth]_vars

-----------------------------------------------------------------------------
(* Properties of the pipeline (Spec) *)

InsertTables == {"transaction_predictions", "customer_risk_scores",
                 "cash_flow_forecasts", "inventory_forecasts"}

AllModels == {"sales", "risk", "cashflow", "inventory"}

RowsOfRun(table, id) ==
    LET Test(r) == r.prediction_run_id = id IN SelectSeq(table, Test)

\* the rows of the current run in a table are the whole batch of the model,
\* or none when the insert of that batch returned an error
Persisted(model, name, table, rows) ==
    model \in modelsRun =>
        RowsOfRun(table, runId) =
            (IF name \in writeErrors THEN <<>> ELSE Tagged(rows, runId))

\* C1: whatever subset of the four inserts fails, the pipeline is not aborted,
\* every batch whose insert did not fail stays in its table, and at the end
\* all four models have run and the run record has been finalized (its update
\* was issued; it reads 'completed' unless the store refused that update).
C1_PartialFailureTolerance ==
    /\ (writeErrors \cap InsertTables # {} => pc # "failed" /\ thrown = "none")
    /\ Persisted("sales", "transaction_predictions", transaction_predictions, salesPredictions)
    /\ Persisted("risk", "customer_risk_scores", customer_risk_scores, riskScores)
    /\ Persisted("cashflow", "cash_flow_forecasts", cash_flow_forecasts, cashFlowForecasts)
    /\ Persisted("inventory", "inventory_forecasts", inventory_forecasts, inventoryForecasts)
    /\ (pc = "finalize" => modelsRun = AllModels)
    /\ (pc = "done" =>
          /\ modelsRun = AllModels
          /\ ("prediction_runs" \notin writeErrors =>
                prediction_runs[runId].status = "completed"))

\* the sales insert failed, the three other batches were written and the run
\* was finalized
C1_Witness ==
    /\ pc = "done"
    /\ writeErrors = {"transaction_predictions"}
    /\ Len(salesPredictions) = 3
    /\ Len(RowsOfRun(transaction_predictions, runId)) = 0
    /\ Len(RowsOfRun(customer_risk_scores, runId)) = 1
    /\ Len(RowsOfRun(cash_flow_forecasts, runId)) = 3
    /\ Len(RowsOfRun(inventory_forecasts, runId)) = 1
    /\ prediction_runs[runId].status = "completed"

\* C2 (as claimed): an execution that created a run ends with that run in
\* status 'completed' or 'failed', never 'running'.
C2_RunNeverLeftRunning ==
    (pc \in {"done", "failed"} /\ runId # 0) =>
        prediction_runs[runId].status \in {"completed", "failed"}

FetchErrors == {"Failed to fetch transactions", "Failed to fetch customers",
                "Failed to fetch products", "Failed to fetch inventory"}

\* C3: when a fetch (any page of transactions, customers, products or
\* inventory) returns an error, the execution is aborted: no model has run,
\* no run was created and no prediction row was written.
C3_FatalFetchError ==
    thrown \in FetchErrors =>
        /\ pc = "failed"
        /\ modelsRun = {}
        /\ runId = 0
        /\ TotalRows = rowsBefore

\* the second page of transactions fails after a full first page
C3_Witness ==
    /\ thrown = "Failed to fetch transactions"
    /\ page = 1
    /\ Len(allTransactions) = pageSize
    /\ pc = "failed"

\* new is old with rows of the current run appended
Appended(old, new) ==
    /\ Len(new) >= Len(old)
    /\ SubSeq(new, 1, Len(old)) = old
    /\ \A i \in (Len(old) + 1)..Len(new) : new[i].prediction_run_id = runId

\* C4: a model runs only after the run record of the execution exists (it is
\* the newest run), and every step leaves each prediction table as it was
\* with, at most, rows carrying the current run id appended.
C4_RunPartitioning ==
    /\ [](modelsRun # {} => runId # 0 /\ runId = Len(prediction_runs)
                            /\ prediction_runs[runId].id = runId)
    /\ [][/\ Appended(transaction_predictions, transaction_predictions')
          /\ Appended(customer_risk_scores, customer_risk_scores')
          /\ Appended(cash_flow_forecasts, cash_flow_forecasts')
          /\ Appended(inventory_forecasts, inventory_forecasts')]_vars

\* the second execution has appended its batch behind the first one's
C4_Witness ==
    /\ executions = 2
    /\ Len(RowsOfRun(cash_flow_forecasts, 1)) = 3
    /\ Len(RowsOfRun(cash_flow_forecasts, 2)) = 3
    /\ Len(cash_flow_forecasts) = 6

-----------------------------------------------------------------------------
(* Properties of forecastSales (SpecSales) *)

DistinctMonthsOf(pid) ==
    Cardinality({Month(transactions[i]) :
        i \in {j \in 1..Len(transactions) : transactions[j].product_id = pid}})

SalesRowsFor(pid) ==
    LET Test(r) == r.product_id = pid IN SelectSeq(salesPredictions, Test)

\* C5: a product of the catalog with fewer than 3 distinct months of
\* transactions gets no row; one with 3 or more gets exactly 3 rows, for 3
\* different forecast months.
C5_SalesRowCount ==
    pc = "output" =>
        \A j \in 1..Len(products) :
            LET rows == SalesRowsFor(products[j].id)
            IN  IF DistinctMonthsOf(products[j].id) < 3
                THEN Len(rows) = 0
                ELSE /\ Len(rows) = 3
                     /\ Cardinality({rows[i].prediction_month : i \in 1..3}) = 3

\* p1 has 3 months and is forecast, p2 has fewer and is not
C5_Witness ==
    /\ pc = "output"
    /\ Len(products) = 2
    /\ DistinctMonthsOf("p1") = 3
    /\ DistinctMonthsOf("p2") = 1
    /\ Len(SalesRowsFor("p1")) = 3
    /\ Len(SalesRowsFor("p2")) = 0

-----------------------------------------------------------------------------
(* Properties of scoreCustomerRisk (SpecRisk) *)

\* C6: every normalized feature of every scored customer lies in [0, 1]
\* (thousandths) and every risk score in [0, 100] (hundredths).
C6_RiskRanges ==
    pc = "output" =>
        \A i \in 1..Len(riskScores) :
            /\ \A f \in Range(featureNames) :
                  riskScores[i].features[f] >= 0 /\ riskScores[i].features[f] <= 1000
            /\ riskScores[i].risk_score >= 0
            /\ riskScores[i].risk_score <= 10000

\* three customers, one with a feature strictly inside the range
C6_Witness ==
    /\ pc = "output"
    /\ Len(riskScores) = 3
    /\ \E i \in 1..3 : /\ riskScores[i].features.avg_payment_delay = 544
                       /\ riskScores[i].features.overdue_ratio = 1000

\* C7: risk_level is 'High' iff risk_score >= 60, 'Medium' iff
\* 30 <= risk_score < 60, 'Low' otherwise.
C7_RiskClassification ==
    pc = "output" =>
        \A i \in 1..Len(riskScores) :
            LET r == riskScores[i]
            IN  /\ r.risk_level = "High" <=> r.risk_score >= 6000
                /\ r.risk_level = "Medium" <=> (r.risk_score >= 3000 /\ r.risk_score < 6000)
                /\ r.risk_level = "Low" <=> r.risk_score < 3000

\* a customer scored exactly 30.00 is 'Medium', next to a 'Low' one
C7_Witness ==
    /\ pc = "output"
    /\ \E i \in 1..Len(riskScores) :
          riskScores[i].risk_score = 3000 /\ riskScores[i].risk_level = "Medium"
    /\ \E i \in 1..Len(riskScores) : riskScores[i].risk_level = "Low"

ScoredFeatures ==
    LET cids == ScoredCustomerIds(transactions, customers)
    IN  [i \in 1..Len(cids) |-> RawFeatures(transactions, customers, cids[i], now)]

\* C8: the six weights sum to 1.0 (100 hundredths), and the weighted sum of
\* the normalized features of every scored customer lies in [0, 1].
C8_WeightsSumToOne ==
    /\ SumSeq([j \in 1..Len(featureNames) |-> WEIGHTS[featureNames[j]]]) = 100
    /\ pc = "output" =>
          \A i \in 1..Len(riskScores) :
              /\ WeightedSum(ScoredFeatures, i) >= 0
              /\ WeightedSum(ScoredFeatures, i) <= 100 * ONE

\* a customer at the maximum of all six features: its weighted sum is 1
C8_Witness ==
    /\ pc = "output"
    /\ \E i \in 1..Len(riskScores) :
          /\ WeightedSum(ScoredFeatures, i) = 100 * ONE
          /\ \A f \in Range(featureNames) : riskScores[i].features[f] = 1000

-----------------------------------------------------------------------------
(* Properties of forecastCashFlow (SpecCash) *)

CashMonthsSeen == {Month(transactions[i]) : i \in 1..Len(transactions)}

\* C9: exactly 3 rows when the transactions cover 3 or more distinct months,
\* none otherwise.
C9_CashRowCount ==
    pc = "output" =>
        Len(cashFlowForecasts) = (IF Cardinality(CashMonthsSeen) >= 3 THEN 3 ELSE 0)

\* 4 transactions over exactly 3 months give 3 rows
C9_Witness ==
    /\ pc = "output"
    /\ Len(transactions) = 4
    /\ Cardinality(CashMonthsSeen) = 3
    /\ Len(cashFlowForecasts) = 3

\* C10 (as claimed): best_case_inflow >= most_likely_inflow >=
\* worst_case_inflow in every emitted row.
C10_ScenarioOrdering ==
    pc = "output" =>
        \A i \in 1..Len(cashFlowForecasts) :
            /\ cashFlowForecasts[i].best_case_inflow >= cashFlowForecasts[i].most_likely_inflow
            /\ cashFlowForecasts[i].most_likely_inflow >= cashFlowForecasts[i].worst_case_inflow

-----------------------------------------------------------------------------
(* Properties of optimizeInventory (SpecInventory) *)

RowStock(i) == CurrentStock(inventory, inventoryForecasts[i].product_id)

RowSeries(i) == DemandSeries(transactions, inventoryForecasts[i].product_id)

\* C11: in every emitted row stockout_probability is 1 when the current stock
\* is <= 0, and within [0, 1] in any case (ten-thousandths).
C11_StockoutProbability ==
    pc = "output" =>
        \A i \in 1..Len(inventoryForecasts) :
            /\ RowStock(i) <= 0 => inventoryForecasts[i].stockout_probability = 10000
            /\ inventoryForecasts[i].stockout_probability >= 0
            /\ inventoryForecasts[i].stockout_probability <= 10000

\* a product in stock with a probability strictly between 0 and 1, next to a
\* product without stock at probability 1
C11_Witness ==
    /\ pc = "output"
    /\ Len(inventoryForecasts) = 2
    /\ RowStock(1) > 0
    /\ inventoryForecasts[1].stockout_probability > 0
    /\ inventoryForecasts[1].stockout_probability < 10000
    /\ RowStock(2) <= 0
    /\ inventoryForecasts[2].stockout_probability = 10000

\* C12 (as claimed): days_until_stockout is 999 if and only if the average
\* daily demand of the product is 0.
C12_StockoutSentinel ==
    pc = "output" =>
        \A i \in 1..Len(inventoryForecasts) :
            inventoryForecasts[i].days_until_stockout = NoDemandDays
                <=> SumSeq(RowSeries(i)) = 0

\* the rung of the ladder a row belongs to, from the stock, the reorder point
\* and the emitted days of stock
ExpectedRung(i) ==
    IF RowStock(i) <= 0 THEN "CRITICAL"
    ELSE IF BelowReorderPoint(RowSeries(i), RowStock(i)) THEN "Urgent"
    ELSE IF inventoryForecasts[i].days_until_stockout < 300 THEN "Plan reorder"
    ELSE IF inventoryForecasts[i].days_until_stockout > 1200 THEN "Overstocked"
    ELSE "Healthy stock"

\* C16: the recommendation of every row is the first matching rung of the
\* ladder stock <= 0, stock < reorder point, days < 30, days > 120, else
\* healthy; a 'CRITICAL' row has stockout_probability 1.
C16_RecommendationLadder ==
    pc = "output" =>
        \A i \in 1..Len(inventoryForecasts) :
            /\ inventoryForecasts[i].recommendation = ExpectedRung(i)
            /\ inventoryForecasts[i].recommendation = "CRITICAL"
                  => inventoryForecasts[i].stockout_probability = 10000

\* a row below its reorder point with less than 30 days of stock is 'Urgent',
\* next to a 'CRITICAL' one
C16_Witness ==
    /\ pc = "output"
    /\ Len(inventoryForecasts) = 2
    /\ inventoryForecasts[1].recommendation = "Urgent"
    /\ inventoryForecasts[1].days_until_stockout < 300
    /\ inventoryForecasts[2].recommendation = "CRITICAL"

-----------------------------------------------------------------------------
(* Further properties of forecastSales (SpecSalesTwice, SpecSales) *)

\* C13 (as claimed): a second call of forecastSales on the same transactions
\* and products returns the same rows, in the same order, as the first.
C13_SalesDeterminism ==
    pc = "again" => salesPredictions = previousRows

\* the spec's scenario: product p1 sold in 4 consecutive months, 100, 110,
\* 120 and 130 litres at unit price 10
ExactFitScenario ==
    /\ Len(transactions) = 4
    /\ \A i \in 1..4 :
          /\ transactions[i].product_id = "p1"
          /\ Month(transactions[i]) = i
          /\ transactions[i].quantity_liters = 90 + 10 * i
          /\ transactions[i].total_amount = 10 * transactions[i].quantity_liters
    /\ \E j \in 1..Len(products) : products[j].id = "p1"

\* C14: on the exact-fit scenario the regression has slope 10 and intercept
\* 100, and the first forecast row has predicted_quantity 140,
\* predicted_revenue 1400, confidence_score 1.0 and trend_direction 'up'
\* (quantities, revenue and confidence in hundredths).
C14_ExactFitRegression ==
    (pc = "output" /\ ExactFitScenario) =>
        LET reg == linearRegression(DataPoints(transactions, "p1"))
        IN  /\ reg.mNum = 10 * reg.D
            /\ reg.bNum = 100 * reg.den
            /\ Len(salesPredictions) = 3
            /\ salesPredictions[1].product_id = "p1"
            /\ salesPredictions[1].predicted_quantity = 14000
            /\ salesPredictions[1].predicted_revenue = Num(140000)
            /\ salesPredictions[1].confidence_score = Num(100)
            /\ salesPredictions[1].trend_direction = "up"

C14_Witness ==
    /\ pc = "output"
    /\ ExactFitScenario
    /\ Len(products) = 2
    /\ salesPredictions[1].predicted_quantity = 14000

-----------------------------------------------------------------------------
(* Further properties of scoreCustomerRisk (SpecRiskPopulation) *)

\* a customer with transactions, none of them overdue or partial, nothing
\* outstanding, and the last one at most 30 days old
CleanCustomer(cid) ==
    LET rows == CustomerTxns(transactions, cid)
    IN  /\ Len(rows) > 0
        /\ \A i \in 1..Len(rows) :
              /\ rows[i].payment_status \notin {"Overdue", "Partial"}
              /\ rows[i].outstanding_amount = 0
              /\ now - DayNumber(rows[i].transaction_date) <= 30

\* C15 (as claimed): whatever the other customers are, a clean customer is
\* emitted with risk_level 'Low'.
C15_CleanCustomerLow ==
    pc = "output" =>
        \A i \in 1..Len(riskScores) :
            CleanCustomer(riskScores[i].customer_id) => riskScores[i].risk_level = "Low"

-----------------------------------------------------------------------------
(* Further properties of the pipeline (Spec) *)

NumericConfidences == SelectSeq(AllConfidences, IsNum)

\* C17 (as claimed): the avg_confidence stored on a completed run is the mean
\* (to hundredths) of the confidence scores that are numbers among the sales,
\* cash-flow and inventory rows of the execution.
C17_OverallConfidence ==
    (pc = "done" /\ prediction_runs[runId].status = "completed"
        /\ Len(NumericConfidences) > 0) =>
        prediction_runs[runId].avg_confidence =
            Num(RoundScaled(SumSeq([i \in 1..Len(NumericConfidences) |->
                                        NumericConfidences[i].v]),
                            Len(NumericConfidences), 0))

ModelSteps == {"sales", "risk", "cashflow", "inventory"}

ModelStepKeepsSnapshot ==
    pc \in ModelSteps =>
        /\ UNCHANGED <<transactions, customers, products, inventory>>
        /\ (pc # "sales" => salesPredictions' = salesPredictions)
        /\ (pc # "risk" => riskScores' = riskScores)
        /\ (pc # "cashflow" => cashFlowForecasts' = cashFlowForecasts)
        /\ (pc # "inventory" => inventoryForecasts' = inventoryForecasts)

\* once the four models have run, each output is what its model returns on
\* the snapshot
OutputsOfSnapshot ==
    pc \in {"finalize", "done"} =>
        /\ salesPredictions = forecastSales(transactions, products, tz)
        /\ riskScores = scoreCustomerRisk(transactions, customers, now)
        /\ cashFlowForecasts = forecastCashFlow(transactions, tz)
        /\ inventoryForecasts = optimizeInventory(transactions, products, inventory)

TimesFetched(id) ==
    Cardinality({i \in 1..Len(transactions) : transactions[i].id = id})

\* C19 (as claimed): when the page loop has ended, the collected list holds
\* every stored transaction exactly once.
C19_PaginatedLoader ==
    pc \in {"fetch_customers", "fetch_products", "fetch_inventory", "create_run"} =>
        /\ Len(transactions) = Len(dbTransactions)
        /\ \A j \in 1..Len(dbTransactions) : TimesFetched(dbTransactions[j].id) = 1

-----------------------------------------------------------------------------
(* Properties of the web application (SpecAuth) *)

\* a step after which user is null and loading is false, taken on a
\* protected route, ends on /login
RedirectsToLogin ==
    (location \in ProtectedRoutes /\ user' = NoUser /\ ~loading') =>
        location' = "/login"

\* C20: for each of /dashboard, /sales, /inventory, /risk and /cashflow, App
\* renders the page of the route only while user is not null, and whenever
\* user is null and loading is false the element of the route is a redirect
\* to /login: a step that leaves user null and loading false on one of these
\* routes takes the browser to /login, and the browser never rests on one of
\* them without a user once loading is false.
C20_ProtectedRoutes ==
    /\ [](\A r \in ProtectedRoutes :
            /\ App(user, loading, r).el = "Dashboard" => user # NoUser
            /\ (user = NoUser /\ ~loading) =>
                  App(user, loading, r) = Navigate("/login"))
    /\ []((location \in ProtectedRoutes /\ ~loading) => user # NoUser)
    /\ [][RedirectsToLogin]_vars

\* a user has signed in on the Login page, was taken to the dashboard and
\* has signed out there: user is null again, the SIGNED_OUT event is still to
\* be delivered and the browser is on /login
C20_Witness ==
    /\ user = NoUser
    /\ ~loading
    /\ session = NULL
    /\ events = <<NULL>>
    /\ roleFetches = <<>>
    /\ error = NULL
    /\ signInCall.at = "fetchUserRole"
    /\ location = "/login"

-----------------------------------------------------------------------------
(* Properties of a repeated scoreCustomerRisk (SpecRiskTwice) *)

\* C21 (as claimed): a second call of scoreCustomerRisk on the same
\* transactions and customers returns the same rows as the first, whenever
\* it is made.
C21_PureModels ==
    pc = "again" => riskScores = previousRows

-----------------------------------------------------------------------------
(* Further properties of forecastSales (SpecSales) *)

\* C22 (as claimed): months of quantity 0 are skipped in the average unit
\* price, so the predicted_revenue of every row is a number (never the
\* result of a division by zero), and it is 0 when all of the product's 3
\* most recent months have quantity 0.
C22_UnitPriceSkipsZeroMonths ==
    pc = "output" =>
        \A i \in 1..Len(salesPredictions) :
            LET pid == salesPredictions[i].product_id
                recent == SubSeq(SortDesc(Range(ProductMonths(transactions, pid))), 1, 3)
            IN  /\ IsNum(salesPredictions[i].predicted_revenue)
                /\ (\A j \in 1..3 : MonthlyOf(transactions, pid, recent[j]).quantity = 0)
                      => salesPredictions[i].predicted_revenue = Num(0)


\* C23 (as claimed): the three rows of every forecast product are dated in
\* the three calendar months that follow the last observed month, the first
\* in the month after it, and no predicted_quantity is negative.
C23_ForecastMonths ==
    pc = "output" =>
        \A i \in 1..Len(salesPredictions) :
            LET all == AllMonths(transactions)
            IN  /\ salesPredictions[i].prediction_month.ym
                      = all[Len(all)] + ((i - 1) % 3) + 1
                /\ salesPredictions[i].predicted_quantity >= 0

-----------------------------------------------------------------------------
(* Further properties of scoreCustomerRisk (SpecRisk) *)

\* C24: a feature whose raw value is the same for every scored customer
\* (one customer included) is normalized to 0 for every customer and adds
\* nothing to any weighted sum.
C24_DegenerateNormalization ==
    (pc = "output" /\ Len(riskScores) > 0) =>
        LET feats == SubSeq(ScoredFeatures, 1, Len(riskScores))
        IN  \A f \in Range(featureNames) :
                FeatureMin(feats, f) = FeatureMax(feats, f) =>
                    \A i \in 1..Len(riskScores) :
                        /\ riskScores[i].features[f] = 0
                        /\ Normalized(feats, i, f, 6) = 0

\* two or more customers share a raw feature value that is not 0
C24_Witness ==
    /\ pc = "output"
    /\ Len(riskScores) >= 2
    /\ \E f \in Range(featureNames) :
          /\ FeatureMin(ScoredFeatures, f) = FeatureMax(ScoredFeatures, f)
          /\ ScoredFeatures[1][f] > 0
          /\ riskScores[1].features[f] = 0

-----------------------------------------------------------------------------
(* Further properties of optimizeInventory (SpecInventory) *)

\* the litres of a product sold in all transactions
TotalDemand(pid) ==
    LET rows == ProductTxns(transactions, pid)
    IN  SumSeq([i \in 1..Len(rows) |-> rows[i].quantity_liters])

\* C25 (as claimed): the demand series of a product has one entry for every
\* calendar month from the first to the last month seen in any transaction,
\* so the predicted monthly demand is the product's total demand divided by
\* the number of calendar months of that range; products are analysed only
\* when the series has at least 2 entries.
C25_DemandSeries ==
    pc = "output" =>
        LET all == AllMonths(transactions)
            span == IF all = <<>> THEN 0 ELSE all[Len(all)] - all[1] + 1
        IN  /\ span < 2 => inventoryForecasts = <<>>
            /\ \A k \in 1..Len(inventoryForecasts) :
                  inventoryForecasts[k].predicted_monthly_demand =
                      RoundScaled(TotalDemand(inventoryForecasts[k].product_id), span, 2)

-----------------------------------------------------------------------------
(* Further properties of forecastCashFlow (SpecCash) *)

\* what a transaction counts as paid, as claimed
ClaimedPaid(t) ==
    IF t.payment_status = "Paid" THEN t.total_amount
    ELSE Max2(0, t.total_amount - t.outstanding_amount)

\* the sum over the first n transactions, those of month m, of the amount
\* (paid = FALSE) or of the paid part (paid = TRUE)
RECURSIVE MonthTotal(_, _, _)
MonthTotal(n, m, paid) ==
    IF n = 0 THEN 0
    ELSE MonthTotal(n - 1, m, paid)
         + (IF Month(transactions[n]) # m THEN 0
            ELSE IF paid THEN ClaimedPaid(transactions[n])
            ELSE transactions[n].total_amount)

NonNegativeAmounts ==
    \A i \in 1..Len(transactions) :
        transactions[i].total_amount >= 0 /\ transactions[i].outstanding_amount >= 0

-----------------------------------------------------------------------------
(* Properties of the dashboard reads (SpecDashboard) *)

IsCompleted(id) ==
    \E i \in 1..Len(prediction_runs) :
        prediction_runs[i].id = id /\ prediction_runs[i].status = "completed"

\* the run the dashboard holds is the most recent completed run of the store
LatestCompleted ==
    predictionRun # NoRun =>
        \E i \in 1..Len(prediction_runs) :
            /\ prediction_runs[i] = predictionRun
            /\ predictionRun.status = "completed"
            /\ \A j \in 1..Len(prediction_runs) :
                  prediction_runs[j].status = "completed" => j <= i

ShowsCompletedOnly ==
    /\ predictionRun # NoRun => IsCompleted(predictionRun.id)
    /\ \A k \in 1..Len(mlData.data) :
          /\ mlData.data[k].prediction_run_id = mlData.runId
          /\ IsCompleted(mlData.data[k].prediction_run_id)

ReadsFinishedRuns ==
    /\ predictionRun' # predictionRun => LatestCompleted'
    /\ ShowsCompletedOnly'

\* C27: every read of the 'prediction-run' query yields null or the most
\* recent run of the store whose status is 'completed', and every row an ML
\* query delivers carries the id of the run it was asked for, which is a
\* completed run: rows of a run that is still 'running' or was never
\* finalized are not delivered, however the reads interleave with the writes
\* of the pipeline.
C27_FinishedRunsOnly == [][ReadsFinishedRuns]_vars

\* the dashboard holds rows of run 1 while a later execution is between its
\* inserts and its final update: its run is 'running' and the table the
\* dashboard read already has rows of it
C27_Witness ==
    /\ predictionRun # NoRun
    /\ Len(mlData.data) > 0
    /\ \E i \in 1..Len(prediction_runs) :
          /\ prediction_runs[i].status = "running"
          /\ prediction_runs[i].id = runId
          /\ pc \in {"risk", "cashflow", "inventory", "finalize"}
          /\ \E k \in 1..Len(TableOf(mlData.query)) :
                TableOf(mlData.query)[k].prediction_run_id = runId

-----------------------------------------------------------------------------
(* The summary of a run (Spec) *)

PredictionTables ==
    {"transaction_predictions", "customer_risk_scores", "cash_flow_forecasts",
     "inventory_forecasts"}

\* the rows the four models return for the snapshot of the execution
ProducedRows ==
    Len(forecastSales(transactions, products, tz))
    + Len(scoreCustomerRisk(transactions, customers, now))
    + Len(forecastCashFlow(transactions, tz))
    + Len(optimizeInventory(transactions, products, inventory))

\* the rows the store holds under the id of the execution's run
PersistedRows ==
    Len(RowsOfRun(transaction_predictions, runId))
    + Len(RowsOfRun(customer_risk_scores, runId))
    + Len(RowsOfRun(cash_flow_forecasts, runId))
    + Len(RowsOfRun(inventory_forecasts, runId))

FinalizedRuns ==
    {i \in 1..Len(prediction_runs) :
        prediction_runs[i].id = runId /\ prediction_runs[i].status = "completed"}

\* C28: when an execution has finalized its run, the run's total_predictions
\* is the number of rows its four models produced, whether or not the
\* inserts succeeded, and it equals the number of rows stored under the run
\* id exactly when no insert of the execution failed.
C28_RunSummaryCount ==
    pc = "done" =>
        \A i \in FinalizedRuns :
            /\ prediction_runs[i].total_predictions = ProducedRows
            /\ prediction_runs[i].total_predictions = PersistedRows
                  <=> writeErrors \cap PredictionTables = {}

\* a finalized run of which one batch was refused and another one stored:
\* the summary counts more rows than the store holds
C28_Witness ==
    /\ pc = "done"
    /\ FinalizedRuns # {}
    /\ writeErrors \cap PredictionTables # {}
    /\ PersistedRows > 0
    /\ \A i \in FinalizedRuns :
          prediction_runs[i].total_predictions > PersistedRows

-----------------------------------------------------------------------------
(* The result of signIn (SpecAuth) *)

\* C29: when signIn has resolved with success: true the user state of the
\* hook it was called on is a non-null user, and after it has resolved,
\* with either result, loading is false.
C29_SignInResultMatchesUser ==
    /\ signInResult = SignInSuccess => loginUser # NoUser
    /\ signInResult # NoResult => ~loginLoading

-----------------------------------------------------------------------------
(* Products without sales or without an inventory record (SpecInventory) *)

MonthsSpanned == {transactions[i].transaction_date.ym : i \in 1..Len(transactions)}

NoInventoryRecord(pid) ==
    \A j \in 1..Len(inventory) : inventory[j].product_id # pid

\* C30: when the transactions fall in at least 2 distinct months,
\* optimizeInventory returns one row per product of the catalog, in catalog
\* order, also for a product that has no transaction; the row of a product
\* without an inventory record has stockout_probability 1 and a
\* recommendation that starts with 'CRITICAL'.
C30_MissingInventoryRecord ==
    (pc = "output" /\ Cardinality(MonthsSpanned) >= 2) =>
        /\ Len(inventoryForecasts) = Len(products)
        /\ \A k \in 1..Len(products) :
              /\ inventoryForecasts[k].product_id = products[k].id
              /\ NoInventoryRecord(products[k].id) =>
                    /\ inventoryForecasts[k].stockout_probability = 10000
                    /\ inventoryForecasts[k].recommendation = "CRITICAL"

\* a catalog of two products over two months of sales of p1 only: p1 has
\* stock on record and is not critical, p2 has neither a transaction nor an
\* inventory record and gets a CRITICAL row
C30_Witness ==
    /\ pc = "output"
    /\ Cardinality(MonthsSpanned) >= 2
    /\ Len(products) = 2
    /\ \A i \in 1..Len(transactions) : transactions[i].product_id = "p1"
    /\ ~NoInventoryRecord("p1")
    /\ NoInventoryRecord("p2")
    /\ Len(inventoryForecasts) = 2
    /\ inventoryForecasts[1].recommendation # "CRITICAL"
    /\ inventoryForecasts[2].product_id = "p2"
    /\ inventoryForecasts[2].recommendation = "CRITICAL"
    /\ inventoryForecasts[2].stockout_probability = 10000

====
